---- MODULE Spec2Model ----
(***************************************************************************)
(* A model of the qbit_monitor task orchestration code.                    *)
(*                                                                         *)
(*   core/storage.py + utils/database.py : the durable task table and its  *)
(*       operations, each a sqlite transaction.  A python sqlite3          *)
(*       connection in its default (deferred) mode runs a SELECT outside   *)
(*       any transaction and opens the write transaction at the first      *)
(*       INSERT/UPDATE/DELETE; writers are serialised by the database      *)
(*       write lock and readers see committed data only.  An operation of  *)
(*       the store is therefore modelled as a read step (its SELECT, when  *)
(*       it has one before its first write) followed by one atomic write   *)
(*       step (every write statement up to the commit).                    *)
(*   core/tasks.py + core/client.py : the tag scanner, the workers, the    *)
(*       remote tag calls, and their recovery paths.                       *)
(*                                                                         *)
(* Times are unix seconds, kept as integers.                               *)
(***************************************************************************)
EXTENDS Integers, Sequences, FiniteSets, TLC

VARIABLES
    fcount,     \* the record_failure calls made on the breaker so far
    pcl,        \* worker thread -> its get_eligible_tasks call on the persistence store:
                \* position, the rows it selected, the task_uuids it returned
    tx,         \* one store operation followed through DatabaseManager.transaction: its
                \* position, the table it found, its uncommitted changes, what it returned
    sq,         \* the retry engine call followed: the reason and retry_count given, the
                \* strategy chosen, the delay computed before and after jitter
    tasks,      \* the rows of table tasks of core/storage.py (a set of records)
    now,        \* time.time()
    apc,        \* store client thread -> position inside a store operation
    aloc,       \* store client thread -> locals of the operation in progress
    ares,       \* the save_task / complete_task call that returned last: its arguments,
                \* its result, and the row of its key as the call found it
    got,        \* store client thread -> the keys its last get_pending_tasks returned
                \* (less the rows deleted or reset since: those are handed back)
    tags,       \* remote engine: torrent hash -> the tags the torrent carries
    present,    \* remote engine: torrent hash -> the torrent exists
    done,       \* remote engine: torrent hash -> progress >= 1.0
    sup,        \* main.py: position of the process (down, starting up, running)
    crashes,    \* number of abrupt terminations so far
    spc,        \* core/tasks.py tag scanner: position in its pass
    wpc,        \* core/tasks.py worker -> position in _worker_loop / _process_task
    wbatch,     \* core/tasks.py worker -> the rows selected, then the tasks claimed
                \* and not yet processed (the head is the task being processed)
    rtasks,     \* the rows of the task table monitor/task_manager.py works on
    rwork,      \* monitor/task_manager.py worker: the Task objects claimed and not
                \* yet processed (the head is the task being processed)
    rlast,      \* the last _process_single_task call: its task, the handler result,
                \* what the retry engine returned, the breaker calls it made
    rgate,      \* monitor/task_manager.py worker: its position before the claim and what
                \* should_pause_processing and can_execute returned to it last
    renv,       \* what the health checker and the breaker answer at present
    bdb,        \* the row of table circuit_break_status for the breaker
    bpc,        \* breaker caller thread -> position inside a CircuitBreaker call
    bloc,       \* breaker caller thread -> locals of the call in progress
    bret,       \* breaker caller thread -> what its last can_execute returned, until
                \* the thread records the outcome of the call it was admitted for
    health,     \* QBittorrentHealthChecker: health_status and consecutive_failures
    seeds,      \* StalledSeedMonitor.tracked_seeds: torrent hash -> StalledSeedInfo
    sengine,    \* remote engine: torrent hash -> progress and state of the download
    slast,      \* the last scan_and_process: the stalled list it fetched, the
                \* torrents_bottom_priority calls it made, the parity of its number
    srun,       \* StalledSeedMonitor.running
    sdemoted,   \* torrent hash -> the torrents_bottom_priority calls that succeeded
                \* since the torrent's entry was created
    tree,       \* the file system: the paths that exist (a path is a sequence of names)
    clast,      \* the last change of the file system: a clean_directory call with
                \* the tree it found and the counts it returned, or a write
    aproc,      \* the worker of core/tasks.py on one added task: its position, the
                \* file list it got, its set_file_priority calls, what became of
                \* its remove_tag call
    hprobe      \* the probes of the health checker: how many of the latest ones in
                \* a row failed in the engine, and what should_pause_processing
                \* returned last

apiVars == <<apc, aloc, ares, got>>
remoteVars == <<tags, present, done>>
coreVars == <<sup, crashes, spc, wpc, wbatch>>
retryVars == <<rtasks, rwork, rlast, rgate, renv>>
breakerVars == <<bdb, bpc, bloc, bret>>
monitorVars == <<retryVars, breakerVars>>
healthVars == <<health, hprobe>>
stalledVars == <<seeds, sengine, slast, srun, sdemoted>>
fileVars == <<tree, clast>>
addedVars == <<aproc>>
strategyVars == <<sq>>
txnVars == <<tx>>
claimVars == <<pcl>>
failureVars == <<fcount>>
otherVars == <<healthVars, stalledVars, fileVars, addedVars, strategyVars, txnVars, claimVars, failureVars>>
vars == <<tasks, now, apc, aloc, ares, got, tags, present, done, sup, crashes, spc,
          wpc, wbatch, rtasks, rwork, rlast, rgate, renv, bdb, bpc, bloc, bret,
          health, hprobe, seeds, sengine, slast, srun, sdemoted, tree, clast,
          aproc,
          sq,
          tx,
          pcl,
          fcount>>

----------------------------------------------------------------------------
(* Bounds of the model *)

\* the clock of the health checker advances by HealthTickSeconds up to HealthMaxTime
HealthTickSeconds == 15
HealthMaxTime == 150
\* consecutive failed probes are followed up to MaxFailedProbes
MaxFailedProbes == 4

\* QBittorrentHealthChecker.__init__: check_interval
HealthCheckInterval == 30

\* the clock of the stalled monitor advances by StalledTickSeconds up to StalledMaxTime
StalledTickSeconds == 900
StalledMaxTime == 3600
\* successful demotions of one entry are followed up to MaxDemotions
MaxDemotions == 2

\* StalledMonitorConfig.min_stalled_minutes
MinStalledMinutes == 30

\* a torrent has up to MaxFiles files
MaxFiles == 2

\* calculate_next_retry is called with retry counts up to MaxEngineRetryCount
MaxEngineRetryCount == 12

\* record_failure is called up to MaxFailureCalls times
MaxFailureCalls == 5

\* clean_directory calls in a row are followed up to MaxCleans
MaxCleans == 2

\* the clock stops at MaxTime
MaxTime == 2400
\* the clock advances by TickSeconds
TickSeconds == 2400
\* largest limit passed to get_pending_tasks by a store client
MaxLimit == 2
\* largest number of abrupt terminations
MaxCrashes == 1

Hashes == {"h1"}
TaskTypes == {"added", "completed"}
Threads == {"w1", "w2"}
Workers == {"w1", "w2"}

\* config: added_tag, completed_tag, processing_tag
AddedTag == "added"
CompletedTag == "completed"
ProcessingTag == "processing"
LifecycleTags == {AddedTag, CompletedTag, ProcessingTag}

\* the source tag of a task type
SourceTag(t) == IF t = "added" THEN AddedTag ELSE CompletedTag

\* get_pending_tasks(limit=5) in _worker_loop
WorkerLimit == 5

\* reset_stuck_tasks(0.5): 0.5 * 3600 seconds
StuckTimeout == 1800

NoRow == [status |-> "none"]

Min(a, b) == IF a <= b THEN a ELSE b

----------------------------------------------------------------------------
(* core/storage.py: the table and the statements run on it *)

KeyOf(r) == <<r.torrent_hash, r.task_type>>

Keys == Hashes \X TaskTypes

RowsOf(tbl, k) == {r \in tbl : KeyOf(r) = k}

\* the row with key k, NoRow when there is none
Row(tbl, k) == IF RowsOf(tbl, k) = {} THEN NoRow ELSE CHOOSE r \in RowsOf(tbl, k) : TRUE

\* Task / row as inserted by save_task
NewRow(h, t, time) ==
    [torrent_hash |-> h, task_type |-> t, status |-> "pending",
     retry_count |-> 0, created_time |-> time, updated_time |-> time]

\* a mutant of PrimaryKeyConflict: no uniqueness constraint on (hash, type)
NoPrimaryKey(tbl, h, t) == FALSE

\* PRIMARY KEY (torrent_hash, task_type): does inserting (h, t) conflict?
PrimaryKeyConflict(tbl, h, t) == RowsOf(tbl, <<h, t>>) # {}

\* save_task, first statement: SELECT 1 ... WHERE torrent_hash = ? AND status = 'processing'
HashProcessing(tbl, h) == \E r \in tbl : r.torrent_hash = h /\ r.status = "processing"

\* a mutant of SaveUpdateGuard: the UPDATE of save_task without its status guard
SaveUpdateAnyStatus(r) == TRUE

\* save_task, the UPDATE's guard: AND status != 'processing'
SaveUpdateGuard(r) == r.status # "processing"

\* save_task, INSERT OR IGNORE: is a row inserted (rowcount = 1)?
SaveInserts(tbl, h, t) == ~PrimaryKeyConflict(tbl, h, t)

\* save_task, the write transaction: INSERT OR IGNORE, then, when nothing was
\* inserted, UPDATE ... SET status = 'pending', updated_time = ?
SaveWriteTable(tbl, h, t, time) ==
    IF SaveInserts(tbl, h, t)
    THEN tbl \cup {NewRow(h, t, time)}
    ELSE {IF KeyOf(r) = <<h, t>> /\ SaveUpdateGuard(r)
          THEN [r EXCEPT !.status = "pending", !.updated_time = time]
          ELSE r : r \in tbl}

\* save_task, return cursor.rowcount > 0 (of the last statement executed)
SaveWriteResult(tbl, h, t) ==
    IF SaveInserts(tbl, h, t)
    THEN TRUE
    ELSE \E r \in RowsOf(tbl, <<h, t>>) : SaveUpdateGuard(r)

\* task_exists: SELECT 1 FROM tasks WHERE torrent_hash = ? AND task_type = ?
TaskExists(tbl, h, t) == RowsOf(tbl, <<h, t>>) # {}

Pending(tbl) == {r \in tbl : r.status = "pending"}

\* the enumerations of the rows S in ORDER BY created_time ASC order
\* (rows of equal created_time come in either order)
SortedSeqs(S) ==
    {q \in [1..Cardinality(S) -> S] :
        /\ \A i, j \in 1..Cardinality(S) : i # j => q[i] # q[j]
        /\ \A i, j \in 1..Cardinality(S) : i < j => q[i].created_time <= q[j].created_time}

\* get_pending_tasks, the SELECT: WHERE status = 'pending'
\* ORDER BY created_time ASC LIMIT ?  -- the possible results of fetchall()
SelectPending(tbl, limit) ==
    UNION {SortedSeqs(S) : S \in
        {S \in SUBSET Pending(tbl) :
            /\ Cardinality(S) = Min(limit, Cardinality(Pending(tbl)))
            /\ \A r \in S : \A o \in Pending(tbl) \ S : r.created_time <= o.created_time}}

\* the selected rows as the loop of get_pending_tasks reads them: row[0], row[1]
\* (the other columns only fill fields of Task that no caller reads)
RowKeys(q) == [i \in 1..Len(q) |-> KeyOf(q[i])]

SnapKeys(snap) == {snap[i] : i \in 1..Len(snap)}

\* a mutant of ClaimGuard: the UPDATE of get_pending_tasks without AND status = 'pending'
ClaimAnyStatus(r) == TRUE

\* get_pending_tasks, the UPDATE's guard: AND status = 'pending'
ClaimGuard(r) == r.status = "pending"

\* get_pending_tasks, the write transaction: one UPDATE per selected row
ClaimTable(tbl, snap, time) ==
    {IF KeyOf(r) \in SnapKeys(snap) /\ ClaimGuard(r)
     THEN [r EXCEPT !.status = "processing", !.updated_time = time]
     ELSE r : r \in tbl}

\* a mutant of ClaimResult: every selected row is returned
ClaimResultAll(tbl, snap) == snap

\* get_pending_tasks, the tasks returned: the selected rows whose UPDATE had rowcount > 0
ClaimResult(tbl, snap) ==
    SelectSeq(snap, LAMBDA k : \E r \in RowsOf(tbl, k) : ClaimGuard(r))

\* a mutant of CompleteTable: the DELETE removes nothing
CompleteKeepsRow(tbl, h, t) == tbl

\* complete_task: DELETE FROM tasks WHERE torrent_hash = ? AND task_type = ?
CompleteTable(tbl, h, t) == {r \in tbl : KeyOf(r) # <<h, t>>}

\* complete_task, return cursor.rowcount > 0
CompleteResult(tbl, h, t) == RowsOf(tbl, <<h, t>>) # {}

\* reset_stuck_tasks, the UPDATE's guard: status = 'processing' AND updated_time < cutoff
StuckGuard(r, time, timeout) == r.status = "processing" /\ r.updated_time < time - timeout

\* reset_stuck_tasks: UPDATE tasks SET status = 'pending', updated_time = now
ResetStuckTable(tbl, time, timeout) ==
    {IF StuckGuard(r, time, timeout)
     THEN [r EXCEPT !.status = "pending", !.updated_time = time]
     ELSE r : r \in tbl}

----------------------------------------------------------------------------
(* The store under concurrent client threads: every thread may call any    *)
(* operation of the store with any arguments.                              *)

Idle == [op |-> "none"]

InitStore ==
    /\ tasks = {}
    /\ now = 0

\* no store client thread
InitNoApi ==
    /\ apc = [c \in Threads |-> "idle"]
    /\ aloc = [c \in Threads |-> Idle]
    /\ ares = Idle
    /\ got = [c \in Threads |-> {}]

\* no health checker
InitNoHealth ==
    /\ health = Idle
    /\ hprobe = Idle

\* no stalled monitor
InitNoStalled ==
    /\ seeds = [h \in Hashes |-> Idle]
    /\ sengine = [h \in Hashes |-> Idle]
    /\ slast = Idle
    /\ srun = FALSE
    /\ sdemoted = [h \in Hashes |-> 0]

\* no file manager
InitNoFiles ==
    /\ tree = {}
    /\ clast = Idle

\* no worker followed through an added task
InitNoAdded == aproc = Idle

InitNoStrategy ==
    sq = Idle

InitNoTxn ==
    tx = Idle

InitNoClaims ==
    pcl = Idle

InitNoFailures ==
    fcount = 0

InitNoOther == InitNoHealth /\ InitNoStalled /\ InitNoFiles /\ InitNoAdded /\ InitNoStrategy /\ InitNoTxn /\ InitNoClaims /\ InitNoFailures

\* no remote engine and no monitor process
InitNoCore ==
    /\ tags = [h \in Hashes |-> {}]
    /\ present = [h \in Hashes |-> FALSE]
    /\ done = [h \in Hashes |-> FALSE]
    /\ sup = "down"
    /\ crashes = 0
    /\ spc = Idle
    /\ wpc = [w \in Workers |-> "idle"]
    /\ wbatch = [w \in Workers |-> <<>>]

\* no monitor/task_manager.py worker
InitNoRetry ==
    /\ rtasks = {}
    /\ rwork = <<>>
    /\ rlast = Idle
    /\ rgate = [pc |-> "top", unhealthy |-> "unknown", rejecting |-> "unknown"]
    /\ renv = [unhealthy |-> FALSE, rejecting |-> FALSE]

\* no circuit breaker
InitNoBreaker ==
    /\ bdb = Idle
    /\ bpc = [c \in Threads |-> "idle"]
    /\ bloc = [c \in Threads |-> Idle]
    /\ bret = [c \in Threads |-> "none"]

InitApi ==
    /\ InitStore
    /\ InitNoApi
    /\ InitNoOther
    /\ InitNoCore
    /\ InitNoRetry
    /\ InitNoBreaker

\* time passes
Tick ==
    /\ now + TickSeconds <= MaxTime
    /\ now' = now + TickSeconds
    /\ UNCHANGED <<tasks, apiVars, otherVars, remoteVars, coreVars, monitorVars>>

\* save_task(h, t): current_time = time.time(), the SELECT for a processing
\* task of the torrent, and the early return False
ApiSaveCheck(c, h, t) ==
    /\ apc[c] = "idle"
    /\ IF HashProcessing(tasks, h)
       THEN /\ ares' = [op |-> "save", by |-> c, key |-> <<h, t>>, val |-> FALSE,
                         before |-> Row(tasks, <<h, t>>)]
            /\ UNCHANGED <<apc, aloc>>
       ELSE /\ apc' = [apc EXCEPT ![c] = "save_checked"]
            /\ aloc' = [aloc EXCEPT ![c] = [op |-> "save", key |-> <<h, t>>, time |-> now]]
            /\ UNCHANGED ares
    /\ UNCHANGED <<tasks, now, got, otherVars, remoteVars, coreVars, monitorVars>>

\* save_task(h, t): INSERT OR IGNORE, UPDATE, commit, return
ApiSaveWrite(c) ==
    /\ apc[c] = "save_checked"
    /\ LET h == aloc[c].key[1]
           t == aloc[c].key[2]
       IN /\ tasks' = SaveWriteTable(tasks, h, t, aloc[c].time)
          /\ ares' = [op |-> "save", by |-> c, key |-> <<h, t>>,
                      val |-> SaveWriteResult(tasks, h, t),
                      before |-> Row(tasks, <<h, t>>)]
    /\ apc' = [apc EXCEPT ![c] = "idle"]
    /\ aloc' = [aloc EXCEPT ![c] = Idle]
    /\ UNCHANGED <<now, got, otherVars, remoteVars, coreVars, monitorVars>>

\* get_pending_tasks(limit): current_time = time.time(), SELECT, fetchall()
ApiClaimSelect(c, limit) ==
    /\ apc[c] = "idle"
    /\ \E q \in SelectPending(tasks, limit) :
          aloc' = [aloc EXCEPT ![c] = [op |-> "claim", rows |-> RowKeys(q), time |-> now]]
    /\ apc' = [apc EXCEPT ![c] = "claim_selected"]
    /\ got' = [got EXCEPT ![c] = {}]
    /\ UNCHANGED <<tasks, now, ares, otherVars, remoteVars, coreVars, monitorVars>>

\* get_pending_tasks(limit): the UPDATEs, commit, return tasks
ApiClaimWrite(c) ==
    /\ apc[c] = "claim_selected"
    /\ tasks' = ClaimTable(tasks, aloc[c].rows, aloc[c].time)
    /\ got' = [got EXCEPT ![c] = SnapKeys(ClaimResult(tasks, aloc[c].rows))]
    /\ apc' = [apc EXCEPT ![c] = "idle"]
    /\ aloc' = [aloc EXCEPT ![c] = Idle]
    /\ UNCHANGED <<now, ares, otherVars, remoteVars, coreVars, monitorVars>>

\* complete_task(h, t): DELETE, commit, return
ApiComplete(c, h, t) ==
    /\ apc[c] = "idle"
    /\ tasks' = CompleteTable(tasks, h, t)
    /\ ares' = [op |-> "complete", by |-> c, key |-> <<h, t>>,
                val |-> CompleteResult(tasks, h, t), before |-> Row(tasks, <<h, t>>)]
    /\ got' = [d \in Threads |-> got[d] \ {<<h, t>>}]
    /\ UNCHANGED <<now, apc, aloc, otherVars, remoteVars, coreVars, monitorVars>>

\* reset_stuck_tasks(0.5), called by TaskManager.__init__ before any thread runs
ApiResetStuck ==
    /\ \A c \in Threads : apc[c] = "idle"
    /\ tasks' = ResetStuckTable(tasks, now, StuckTimeout)
    /\ tasks' # tasks
    /\ got' = [d \in Threads |->
                {k \in got[d] : \A r \in RowsOf(tasks, k) : ~StuckGuard(r, now, StuckTimeout)}]
    /\ UNCHANGED <<now, apc, aloc, ares, otherVars, remoteVars, coreVars, monitorVars>>

NextApi ==
    \/ Tick
    \/ \E c \in Threads, h \in Hashes, t \in TaskTypes : ApiSaveCheck(c, h, t)
    \/ \E c \in Threads : ApiSaveWrite(c)
    \/ \E c \in Threads, limit \in 1..MaxLimit : ApiClaimSelect(c, limit)
    \/ \E c \in Threads : ApiClaimWrite(c)
    \/ \E c \in Threads, h \in Hashes, t \in TaskTypes : ApiComplete(c, h, t)
    \/ ApiResetStuck

SpecApi == InitApi /\ [][NextApi]_vars

----------------------------------------------------------------------------
(* core/client.py: the calls on the remote engine.  add_tag and remove_tag  *)
(* catch every exception and return nothing: a call either takes effect    *)
(* (ok) or fails without the caller noticing.                              *)

AddTagsTo(tg, pr, h, tag, ok) ==
    IF ok /\ pr[h] THEN [tg EXCEPT ![h] = @ \cup {tag}] ELSE tg

RemoveTagsFrom(tg, pr, h, tag, ok) ==
    IF ok /\ pr[h] THEN [tg EXCEPT ![h] = @ \ {tag}] ELSE tg

\* get_torrents_by_tag: the torrents carrying the tag
TaggedTorrents(tg, pr, tag) == {h \in Hashes : pr[h] /\ tag \in tg[h]}

\* the enumerations of a set of hashes, as torrents_info() may list them
ListsOf(S) ==
    {q \in [1..Cardinality(S) -> S] : \A i, j \in 1..Cardinality(S) : i # j => q[i] # q[j]}

\* _recover_torrent_tags: the tag restored, by the progress of the torrent object
RecoverTag(complete) == IF complete THEN CompletedTag ELSE AddedTag

\* a mutant of StartupTag: the task rows are not looked at
StartupTagByProgress(tbl, h, complete) == RecoverTag(complete)

\* main._recover_single_torrent: the tag restored at startup
StartupTag(tbl, h, complete) ==
    IF TaskExists(tbl, h, "added") THEN AddedTag
    ELSE IF TaskExists(tbl, h, "completed") THEN CompletedTag
    ELSE RecoverTag(complete)

----------------------------------------------------------------------------
(* The monitor process: main.py startup, the scanner thread and the worker *)
(* threads of core/tasks.py, against the store and the remote engine.      *)
(* The torrent handlers (_process_added_task, _process_completed_task)     *)
(* catch their exceptions and return a boolean; their effect on files is   *)
(* not part of this state, their result is an input of the step.           *)

Scanning(type) == [pc |-> "scan", type |-> type, todo |-> <<>>]

InitCore ==
    /\ InitStore
    /\ InitNoApi
    /\ InitNoOther
    /\ tags = [h \in Hashes |-> {AddedTag}]
    /\ present = [h \in Hashes |-> TRUE]
    /\ done = [h \in Hashes |-> FALSE]
    /\ sup = "running"
    /\ crashes = 0
    /\ spc = Scanning("added")
    /\ wpc = [w \in Workers |-> "idle"]
    /\ wbatch = [w \in Workers |-> <<>>]
    /\ InitNoRetry
    /\ InitNoBreaker

\* the keys a worker holds a claim on: those get_pending_tasks returned to it,
\* each until the worker's complete_task has deleted the row or its failed
\* attempt has ended
Held(w) ==
    IF wpc[w] \in {"idle", "selected"} THEN {}
    ELSE IF wpc[w] = "untag" THEN SnapKeys(Tail(wbatch[w]))
    ELSE SnapKeys(wbatch[w])

\* a store call is between its first SELECT and its commit
StoreCallInFlight ==
    \/ spc.pc = "write"
    \/ \E w \in Workers : wpc[w] = "selected"

\* time passes; a store call (sqlite busy_timeout 5 s) does not span a tick
CoreTick ==
    /\ ~StoreCallInFlight
    /\ now + TickSeconds <= MaxTime
    /\ now' = now + TickSeconds
    /\ UNCHANGED <<tasks, apiVars, otherVars, remoteVars, coreVars, monitorVars>>

\* the download of torrent h completes; the engine tags it completed
TorrentFinishes(h) ==
    /\ present[h]
    /\ ~done[h]
    /\ done' = [done EXCEPT ![h] = TRUE]
    /\ tags' = [tags EXCEPT ![h] = @ \cup {CompletedTag}]
    /\ UNCHANGED <<tasks, now, apiVars, otherVars, present, coreVars, monitorVars>>

\* the user deletes torrent h from the engine
TorrentRemoved(h) ==
    /\ present[h]
    /\ present' = [present EXCEPT ![h] = FALSE]
    /\ tags' = [tags EXCEPT ![h] = {}]
    /\ UNCHANGED <<tasks, now, apiVars, otherVars, done, coreVars, monitorVars>>

\* the scanner moves on to the next torrent of its list, or to the next scan
ScanAdvance ==
    IF Len(spc.todo) > 1
    THEN [spc EXCEPT !.pc = "exists", !.todo = Tail(@)]
    ELSE Scanning(IF spc.type = "added" THEN "completed" ELSE "added")

\* _scan_added_tasks / _scan_completed_tasks: get_torrents_by_tag (which
\* returns [] when the engine call raises)
ScanList(ok) ==
    /\ sup = "running"
    /\ spc.pc = "scan"
    /\ \E q \in ListsOf(IF ok THEN TaggedTorrents(tags, present, SourceTag(spc.type))
                        ELSE {}) :
          spc' = IF Len(q) = 0
                 THEN Scanning(IF spc.type = "added" THEN "completed" ELSE "added")
                 ELSE [spc EXCEPT !.pc = "exists", !.todo = q]
    /\ UNCHANGED <<tasks, now, apiVars, otherVars, remoteVars, sup, crashes, wpc, wbatch, monitorVars>>

\* _process_added_torrent / _process_completed_torrent: task_exists
ScanExists ==
    /\ sup = "running"
    /\ spc.pc = "exists"
    /\ spc' = IF TaskExists(tasks, Head(spc.todo), spc.type)
              THEN ScanAdvance
              ELSE [spc EXCEPT !.pc = "save"]
    /\ UNCHANGED <<tasks, now, apiVars, otherVars, remoteVars, sup, crashes, wpc, wbatch, monitorVars>>

\* save_task: the SELECT for a processing task of the torrent
ScanSaveCheck ==
    /\ sup = "running"
    /\ spc.pc = "save"
    /\ spc' = IF HashProcessing(tasks, Head(spc.todo))
              THEN ScanAdvance
              ELSE [spc EXCEPT !.pc = "write"]
    /\ UNCHANGED <<tasks, now, apiVars, otherVars, remoteVars, sup, crashes, wpc, wbatch, monitorVars>>

\* save_task: the write transaction and the return
ScanSaveWrite ==
    /\ sup = "running"
    /\ spc.pc = "write"
    /\ tasks' = SaveWriteTable(tasks, Head(spc.todo), spc.type, now)
    /\ spc' = IF SaveWriteResult(tasks, Head(spc.todo), spc.type)
              THEN [spc EXCEPT !.pc = "add_tag"]
              ELSE ScanAdvance
    /\ UNCHANGED <<now, apiVars, otherVars, remoteVars, sup, crashes, wpc, wbatch, monitorVars>>

\* add_tag(torrent.hash, processing_tag)
ScanAddTag(ok) ==
    /\ sup = "running"
    /\ spc.pc = "add_tag"
    /\ tags' = AddTagsTo(tags, present, Head(spc.todo), ProcessingTag, ok)
    /\ spc' = [spc EXCEPT !.pc = "remove_tag"]
    /\ UNCHANGED <<tasks, now, apiVars, otherVars, present, done, sup, crashes, wpc, wbatch, monitorVars>>

\* remove_tag(torrent.hash, added_tag / completed_tag)
ScanRemoveTag(ok) ==
    /\ sup = "running"
    /\ spc.pc = "remove_tag"
    /\ tags' = RemoveTagsFrom(tags, present, Head(spc.todo), SourceTag(spc.type), ok)
    /\ spc' = ScanAdvance
    /\ UNCHANGED <<tasks, now, apiVars, otherVars, present, done, sup, crashes, wpc, wbatch, monitorVars>>

\* _worker_loop: get_pending_tasks(limit=5), the SELECT
WorkerSelect(w) ==
    /\ sup = "running"
    /\ wpc[w] = "idle"
    /\ \E q \in SelectPending(tasks, WorkerLimit) :
          wbatch' = [wbatch EXCEPT ![w] = RowKeys(q)]
    /\ wpc' = [wpc EXCEPT ![w] = "selected"]
    /\ UNCHANGED <<tasks, now, apiVars, otherVars, remoteVars, sup, crashes, spc, monitorVars>>

\* get_pending_tasks: the UPDATEs, the commit, the tasks returned
WorkerClaim(w) ==
    /\ sup = "running"
    /\ wpc[w] = "selected"
    /\ tasks' = ClaimTable(tasks, wbatch[w], now)
    /\ wbatch' = [wbatch EXCEPT ![w] = ClaimResult(tasks, wbatch[w])]
    /\ wpc' = [wpc EXCEPT ![w] = IF ClaimResult(tasks, wbatch[w]) = <<>>
                                 THEN "idle" ELSE "ready"]
    /\ UNCHANGED <<now, apiVars, otherVars, remoteVars, sup, crashes, spc, monitorVars>>

\* get_torrent_by_hash: the torrent, or None -- because the engine has no such
\* torrent ("gone") or because the call raised ("fetch_error")
FetchOutcomes(h) ==
    IF present[h] THEN {"torrent", "fetch_error"} ELSE {"gone"}

\* get_torrent_files: the file list is empty (no metadata yet, or the call
\* raised and [] was returned) or it lists the files
FileLists == {"empty", "listed"}

\* _process_added_task on the file list; applied: the exclusion policy went
\* through (nothing to disable, or set_file_priority succeeded).  "no_files"
\* is the return True of `if not files`
ProcessAddedTask(files, applied) ==
    IF files = "empty" THEN "no_files" ELSE IF applied THEN "succeeded" ELSE "failed"

\* _process_task up to the decision: get_torrent_by_hash, then the handler of
\* the task type on the torrent object (a snapshot: its progress is read later)
WorkerProcess(w, fetched, files, success) ==
    /\ sup = "running"
    /\ wpc[w] = "ready"
    /\ fetched \in FetchOutcomes(Head(wbatch[w])[1])
    /\ wpc' = [wpc EXCEPT ![w] =
                 LET result == IF Head(wbatch[w])[2] = "added"
                               THEN ProcessAddedTask(files, success)
                               ELSE IF success THEN "succeeded" ELSE "failed"
                 IN IF fetched # "torrent" THEN fetched
                    ELSE IF result # "failed" THEN result
                    ELSE IF done[Head(wbatch[w])[1]] THEN "failed_complete"
                    ELSE "failed_incomplete"]
    /\ UNCHANGED <<tasks, now, apiVars, otherVars, remoteVars, sup, crashes, spc, wbatch, monitorVars>>

\* _handle_missing_torrent / _complete_task_success: complete_task
WorkerComplete(w) ==
    /\ sup = "running"
    /\ wpc[w] \in {"gone", "fetch_error", "succeeded", "no_files"}
    /\ tasks' = CompleteTable(tasks, Head(wbatch[w])[1], Head(wbatch[w])[2])
    /\ wpc' = [wpc EXCEPT ![w] = "untag"]
    /\ UNCHANGED <<now, apiVars, otherVars, remoteVars, sup, crashes, spc, wbatch, monitorVars>>

\* the worker is done with the head of its batch
WorkerAdvance(w) ==
    /\ wbatch' = [wbatch EXCEPT ![w] = Tail(@)]
    /\ wpc' = [wpc EXCEPT ![w] = IF Len(wbatch[w]) > 1 THEN "ready" ELSE "idle"]

\* _handle_missing_torrent / _complete_task_success: remove_tag(processing_tag)
WorkerUntag(w, ok) ==
    /\ sup = "running"
    /\ wpc[w] = "untag"
    /\ tags' = RemoveTagsFrom(tags, present, Head(wbatch[w])[1], ProcessingTag, ok)
    /\ WorkerAdvance(w)
    /\ UNCHANGED <<tasks, now, apiVars, otherVars, present, done, sup, crashes, spc, monitorVars>>

\* _recover_task_on_failure, _recover_torrent_tags: add_tag of the source tag
WorkerRecoverAdd(w, ok) ==
    /\ sup = "running"
    /\ wpc[w] \in {"failed_complete", "failed_incomplete"}
    /\ tags' = AddTagsTo(tags, present, Head(wbatch[w])[1],
                         RecoverTag(wpc[w] = "failed_complete"), ok)
    /\ wpc' = [wpc EXCEPT ![w] = "recover_remove"]
    /\ UNCHANGED <<tasks, now, apiVars, otherVars, present, done, sup, crashes, spc, wbatch, monitorVars>>

\* _recover_torrent_tags: remove_tag(processing_tag); the row is left as it is
WorkerRecoverRemove(w, ok) ==
    /\ sup = "running"
    /\ wpc[w] = "recover_remove"
    /\ tags' = RemoveTagsFrom(tags, present, Head(wbatch[w])[1], ProcessingTag, ok)
    /\ WorkerAdvance(w)
    /\ UNCHANGED <<tasks, now, apiVars, otherVars, present, done, sup, crashes, spc, monitorVars>>

\* the process is killed: every thread and its locals are gone
Crash ==
    /\ sup # "down"
    /\ crashes < MaxCrashes
    /\ crashes' = crashes + 1
    /\ sup' = "down"
    /\ spc' = Scanning("added")
    /\ wpc' = [w \in Workers |-> "idle"]
    /\ wbatch' = [w \in Workers |-> <<>>]
    /\ UNCHANGED <<tasks, now, apiVars, otherVars, remoteVars, monitorVars>>

\* the process starts: TaskManager.__init__ calls reset_stuck_tasks(0.5)
Start ==
    /\ sup = "down"
    /\ tasks' = ResetStuckTable(tasks, now, StuckTimeout)
    /\ sup' = "recover"
    /\ UNCHANGED <<now, apiVars, otherVars, remoteVars, crashes, spc, wpc, wbatch, monitorVars>>

\* main._recover_processing_torrents: get_torrents_by_tag(processing_tag), and
\* for a torrent of the list _recover_single_torrent up to its choice of tag
StartRecoverList(ok) ==
    /\ sup = "recover"
    /\ \E q \in ListsOf(IF ok THEN TaggedTorrents(tags, present, ProcessingTag) ELSE {}) :
          IF Len(q) = 0
          THEN /\ sup' = "running"
               /\ spc' = Scanning("added")
          ELSE /\ sup' = "recover_add"
               /\ spc' = [pc |-> "startup", type |-> "added", todo |-> q,
                          complete |-> done[Head(q)],
                          tag |-> StartupTag(tasks, Head(q), done[Head(q)])]
    /\ UNCHANGED <<tasks, now, apiVars, otherVars, remoteVars, crashes, wpc, wbatch, monitorVars>>

\* _recover_single_torrent: add_tag of the source tag
StartRecoverAdd(ok) ==
    /\ sup = "recover_add"
    /\ tags' = AddTagsTo(tags, present, Head(spc.todo), spc.tag, ok)
    /\ sup' = "recover_remove"
    /\ UNCHANGED <<tasks, now, apiVars, otherVars, present, done, crashes, spc, wpc, wbatch, monitorVars>>

\* _recover_single_torrent: remove_tag(processing_tag); then the next torrent
\* of the list, and after the last _start_components
StartRecoverRemove(ok) ==
    /\ sup = "recover_remove"
    /\ tags' = RemoveTagsFrom(tags, present, Head(spc.todo), ProcessingTag, ok)
    /\ IF Len(spc.todo) > 1
       THEN /\ sup' = "recover_add"
            /\ spc' = [spc EXCEPT !.todo = Tail(@),
                          !.complete = done[Head(Tail(spc.todo))],
                          !.tag = StartupTag(tasks, Head(Tail(spc.todo)),
                                             done[Head(Tail(spc.todo))])]
       ELSE /\ sup' = "running"
            /\ spc' = Scanning("added")
    /\ UNCHANGED <<tasks, now, apiVars, otherVars, present, done, crashes, wpc, wbatch, monitorVars>>

Next ==
    \/ CoreTick
    \/ \E h \in Hashes : TorrentFinishes(h)
    \/ \E h \in Hashes : TorrentRemoved(h)
    \/ \E ok \in BOOLEAN : ScanList(ok)
    \/ ScanExists
    \/ ScanSaveCheck
    \/ ScanSaveWrite
    \/ \E ok \in BOOLEAN : ScanAddTag(ok)
    \/ \E ok \in BOOLEAN : ScanRemoveTag(ok)
    \/ \E w \in Workers : WorkerSelect(w)
    \/ \E w \in Workers : WorkerClaim(w)
    \/ \E w \in Workers, fetched \in {"torrent", "fetch_error", "gone"},
          files \in FileLists, success \in BOOLEAN :
             WorkerProcess(w, fetched, files, success)
    \/ \E w \in Workers : WorkerComplete(w)
    \/ \E w \in Workers, ok \in BOOLEAN : WorkerUntag(w, ok)
    \/ \E w \in Workers, ok \in BOOLEAN : WorkerRecoverAdd(w, ok)
    \/ \E w \in Workers, ok \in BOOLEAN : WorkerRecoverRemove(w, ok)
    \/ Crash
    \/ Start
    \/ \E ok \in BOOLEAN : StartRecoverList(ok)
    \/ \E ok \in BOOLEAN : StartRecoverAdd(ok)
    \/ \E ok \in BOOLEAN : StartRecoverRemove(ok)

Spec == InitCore /\ [][Next]_vars

----------------------------------------------------------------------------
(* Properties of the store under concurrent client threads (SpecApi) *)

\* C1: claim atomicity -- the key sets returned by two concurrent (overlapping
\* or successive) calls of get_pending_tasks are disjoint, for every limit:
\* no two threads hold a key that both were handed and that was not deleted
\* or reset in between.
C1_ClaimsDisjoint ==
    \A c, d \in Threads : c # d => got[c] \cap got[d] = {}

\* C1, the case: a call returned key k while another call, which had selected
\* k too, is still between its SELECT and its UPDATEs
C1_Witness ==
    \E c, d \in Threads : \E k \in Keys :
        /\ c # d
        /\ k \in got[c]
        /\ apc[d] = "claim_selected"
        /\ k \in SnapKeys(aloc[d].rows)

\* the step in which thread c's save_task runs its write transaction and returns
SaveWrites(c) == apc[c] = "save_checked" /\ apc'[c] = "idle"

\* the step in which thread c's save_task returns early from its first SELECT
SaveReturnsEarly(c) ==
    /\ apc[c] = "idle"
    /\ apc'[c] = "idle"
    /\ ares' # ares
    /\ ares'.op = "save"
    /\ ares'.by = c

C4_OneRowPerKey ==
    \A k \in Keys : Cardinality(RowsOf(tasks, k)) <= 1

\* C4, the case: save_task was called for a pair whose task was being processed
C4_Witness ==
    /\ ares.op = "save"
    /\ ares.before # NoRow
    /\ ares.before.status = "processing"
    /\ Cardinality(RowsOf(tasks, ares.key)) = 1

----------------------------------------------------------------------------
(* Properties of the monitor process (Spec) *)

\* C2: single in-flight -- at every instant, for every key, at most one worker
\* holds a claim on the task with that key, under every interleaving of the
\* scanner's save_task, the workers' claims, complete_task and the startup
\* reset_stuck_tasks.
C2_SingleInFlight ==
    \A k \in Keys : Cardinality({w \in Workers : k \in Held(w)}) <= 1

\* C2, the case: a worker holds key k while another worker, which had selected
\* k too, is between its SELECT and its UPDATEs
C2_Witness ==
    \E w, v \in Workers : \E k \in Keys :
        /\ w # v
        /\ k \in Held(w)
        /\ wpc[v] = "selected"
        /\ k \in SnapKeys(wbatch[v])

\* C5: a task row is removed only on success of its handler or on confirmed
\* non-existence of the torrent; an error while fetching the torrent never
\* deletes the task.
C5_RemovedOnlyOnSuccessOrAbsence ==
    [][\A k \in Keys :
          (RowsOf(tasks, k) # {} /\ RowsOf(tasks', k) = {}) =>
              \E w \in Workers :
                  /\ wpc[w] \in {"succeeded", "no_files", "gone"}
                  /\ Head(wbatch[w]) = k
                  /\ wpc'[w] = "untag"]_vars

\* the step in which worker w ends a failed attempt (its handler returned False)
FailedAttemptEnds(w) ==
    /\ wpc[w] = "recover_remove"
    /\ wpc'[w] \in {"ready", "idle"}
    /\ sup' = "running"

\* C6: no loss -- a failed attempt leaves the task scheduled for another
\* attempt (failed with a retry time, or pending), never in processing.
C6_FailedAttemptRescheduled ==
    [][\A w \in Workers :
          FailedAttemptEnds(w) =>
              Row(tasks', Head(wbatch[w])).status \in {"none", "failed", "pending"}]_vars

\* C7: crash recovery -- after an abrupt termination and restart no task that
\* no worker holds stays in processing for longer than stuck_timeout.
C7_NoStaleProcessingAfterRestart ==
    (crashes > 0 /\ sup = "running") =>
        \A r \in tasks :
            (r.status = "processing" /\ \A w \in Workers : KeyOf(r) \notin Held(w)) =>
                now - r.updated_time <= StuckTimeout

\* C9: tag conservation -- a torrent that carried a source tag and whose task
\* is still in the store carries at least one of added, completed, processing
\* (the torrents of this model carry added from the start, and nobody but the
\* monitor removes a tag).
C9_TaggedWhileTaskOwed ==
    \A h \in Hashes :
        (present[h] /\ \E r \in tasks : r.torrent_hash = h) =>
            tags[h] \cap LifecycleTags # {}

----------------------------------------------------------------------------
(* retry_engine/strategies.py, retry_engine/infinite_retry.py: the retry    *)
(* engine.  A failure reason is a string; it is kept as the sequence of    *)
(* the tokens it is made of ("processing_exception:msg" is                 *)
(* <<"processing_exception", ":msg">>), so that prefixes and prefixing are *)
(* operations on sequences.  Delays are whole seconds; a non-integer       *)
(* multiplier m is kept as the fraction mult_num / mult_den and the        *)
(* jitter factor as a percentage.                                          *)

\* calculate_next_retry: return None
NoRetry == -1

\* RetryStrategyConfig.max_retries = None
Unlimited == -1

\* RetryStrategyFactory.get_default_strategies, in the order of the dict
DefaultStrategies ==
    << [name |-> "qbit_api_error", type |-> "exponential_backoff", base_delay |-> 60,
        max_delay |-> 600, max_retries |-> Unlimited, mult_num |-> 2, mult_den |-> 1,
        jitter_pct |-> 10],
       [name |-> "network_error", type |-> "linear_backoff", base_delay |-> 10,
        max_delay |-> 60, max_retries |-> Unlimited, mult_num |-> 6, mult_den |-> 5,
        jitter_pct |-> 20],
       [name |-> "torrent_not_found", type |-> "exponential_backoff", base_delay |-> 5,
        max_delay |-> 60, max_retries |-> 3, mult_num |-> 1, mult_den |-> 1,
        jitter_pct |-> 10],
       [name |-> "retry_later", type |-> "exponential_backoff", base_delay |-> 120,
        max_delay |-> 1800, max_retries |-> Unlimited, mult_num |-> 2, mult_den |-> 1,
        jitter_pct |-> 10],
       [name |-> "processing_exception", type |-> "exponential_backoff", base_delay |-> 30,
        max_delay |-> 300, max_retries |-> Unlimited, mult_num |-> 3, mult_den |-> 2,
        jitter_pct |-> 10] >>

\* str.startswith
StartsWith(str, prefix) ==
    /\ Len(prefix) <= Len(str)
    /\ SubSeq(str, 1, Len(prefix)) = prefix

\* a mutant of GetStrategy: only the exact match is tried
GetStrategyExact(reason) ==
    LET exact == {i \in 1..Len(DefaultStrategies) : <<DefaultStrategies[i].name>> = reason}
    IN IF exact # {} THEN DefaultStrategies[CHOOSE i \in exact : TRUE]
       ELSE DefaultStrategies[4]

\* StrategyManager.get_strategy: the exact match, else the first strategy
\* whose name is a prefix of the reason, else retry_later
GetStrategy(reason) ==
    LET exact == {i \in 1..Len(DefaultStrategies) : <<DefaultStrategies[i].name>> = reason}
        prefixed == {i \in 1..Len(DefaultStrategies) :
                        StartsWith(reason, <<DefaultStrategies[i].name>>)}
        first(S) == CHOOSE i \in S : \A j \in S : i <= j
    IN IF exact # {} THEN DefaultStrategies[first(exact)]
       ELSE IF prefixed # {} THEN DefaultStrategies[first(prefixed)]
       ELSE DefaultStrategies[4]

\* a mutant of ShouldRetry: the budget grants one retry more
ShouldRetryOnceMore(st, retry_count) ==
    IF st.max_retries = Unlimited THEN TRUE ELSE retry_count <= st.max_retries

\* RetryStrategy.should_retry
ShouldRetry(st, retry_count) ==
    IF st.max_retries = Unlimited THEN TRUE ELSE retry_count < st.max_retries

RECURSIVE Pow(_, _)
Pow(b, n) == IF n = 0 THEN 1 ELSE b * Pow(b, n - 1)

Max(a, b) == IF a >= b THEN a ELSE b

\* RetryStrategy.add_jitter: delay + delay * uniform(-jitter_factor, jitter_factor),
\* at least 1; j picks the lower end, the middle or the upper end of the interval
AddJitter(st, delay, j) == Max(1, delay + j * ((delay * st.jitter_pct) \div 100))

\* ExponentialBackoffStrategy.calculate_delay / LinearBackoffStrategy.calculate_delay:
\* base_delay, the delay before the limit
BaseDelay(st, retry_count) ==
    LET n == Min(retry_count, 10)
    IN IF st.type = "linear_backoff"
       THEN (st.base_delay * (2 + retry_count)) \div 2
       ELSE IF retry_count = 0 THEN st.base_delay
       ELSE (st.base_delay * Pow(st.mult_num, n)) \div Pow(st.mult_den, n)

\* a mutant of FinalDelay: max_delay is not applied
FinalDelayUnlimited(st, retry_count) == BaseDelay(st, retry_count)

\* calculate_delay: final_delay = min(base_delay, self.config.max_delay)
FinalDelay(st, retry_count) == Min(BaseDelay(st, retry_count), st.max_delay)

\* calculate_delay: return self.add_jitter(final_delay)
CalculateDelay(st, retry_count, j) == AddJitter(st, FinalDelay(st, retry_count), j)

\* InfiniteRetryEngine.calculate_next_retry
CalculateNextRetry(retry_count, reason, time, j) ==
    IF ~ShouldRetry(GetStrategy(reason), retry_count)
    THEN NoRetry
    ELSE time + CalculateDelay(GetStrategy(reason), retry_count, j)

----------------------------------------------------------------------------
(* The task table monitor/task_manager.py works on.  The store it calls    *)
(* (save_task(hash, type), get_pending_tasks(limit), complete_task,        *)
(* schedule_retry) is specified in the store contract: rows carry          *)
(* retry_count, next_retry and failure_reason, and status failed.          *)

RNewRow(h, t, time) ==
    [torrent_hash |-> h, task_type |-> t, status |-> "pending", retry_count |-> 0,
     next_retry |-> 0, failure_reason |-> <<>>, created_time |-> time,
     updated_time |-> time]

\* claim: status in (pending, failed) and next_retry = 0 or next_retry <= now
Eligible(tbl, time) ==
    {r \in tbl : /\ r.status \in {"pending", "failed"}
                 /\ (r.next_retry = 0 \/ r.next_retry <= time)}

\* claim: ordered by status (pending first), then created_time ascending
ClaimOrder(a, b) ==
    \/ a.status = "pending" /\ b.status # "pending"
    \/ a.status = b.status /\ a.created_time <= b.created_time

\* claim: the rows handed out, up to limit, in order
ClaimSeqs(tbl, time, limit) ==
    LET E == Eligible(tbl, time)
        n == Min(limit, Cardinality(E))
    IN {q \in [1..n -> E] :
           /\ \A i, j \in 1..n : i # j => q[i] # q[j]
           /\ \A i, j \in 1..n : i < j => ClaimOrder(q[i], q[j])
           /\ \A r \in E : (\A i \in 1..n : q[i] # r) => \A i \in 1..n : ClaimOrder(q[i], r)}

\* claim: UPDATE ... SET status = 'processing' on the rows handed out
RClaimTable(tbl, q, time) ==
    {IF \E i \in 1..Len(q) : q[i] = r
     THEN [r EXCEPT !.status = "processing", !.updated_time = time]
     ELSE r : r \in tbl}

\* the Task object of a claimed row
TaskOf(r) == [key |-> KeyOf(r), retry_count |-> r.retry_count]

\* schedule_retry: status failed, retry_count + 1, next_retry, failure_reason,
\* updated_time
ScheduleRetryTable(tbl, k, next_retry, reason, time) ==
    {IF KeyOf(r) = k
     THEN [r EXCEPT !.status = "failed", !.retry_count = @ + 1, !.next_retry = next_retry,
                    !.failure_reason = reason, !.updated_time = time]
     ELSE r : r \in tbl}

----------------------------------------------------------------------------
(* monitor/task_manager.py: the worker's _process_single_task *)

\* getattr(config, "batch_size", 5)
BatchSize == 5

\* a retry counter is followed up to MaxRetryCount
MaxRetryCount == 4
\* the clock of the retrying worker advances by RetryTickSeconds up to RetryMaxTime
RetryTickSeconds == 3600
RetryMaxTime == 10800

\* what a torrent handler can return other than success and torrent_not_found
FailureResults ==
    { <<"qbit_api_error">>, <<"network_error">>, <<"retry_later">>,
      <<"metadata_not_ready">>, <<"torrent_not_found", ":recheck">> }

\* _process_single_task: f"exception:{str(e)}"
ExceptionReason == <<"exception", ":err">>

\* a mutant of ExhaustedRetryTime: the task is due at once
ExhaustedRetryNow(time) == time

\* _handle_failure, budget exhausted: next_retry_time = time.time() + 3600
ExhaustedRetryTime(time) == time + 3600

\* _handle_failure, budget exhausted: f"max_retries_reached:{failure_reason}"
ExhaustedReason(reason) == <<"max_retries_reached:">> \o reason

\* _handle_failure: any(err in failure_reason for err in [...])
IsSystemError(reason) ==
    \E i \in 1..Len(reason) : reason[i] \in {"qbit_api_error", "network_error"}

\* _handle_failure: the table after schedule_retry
HandleFailureTable(tbl, task, reason, time, j) ==
    IF CalculateNextRetry(task.retry_count, reason, time, j) = NoRetry
    THEN ScheduleRetryTable(tbl, task.key, ExhaustedRetryTime(time),
                            ExhaustedReason(reason), time)
    ELSE ScheduleRetryTable(tbl, task.key,
                            CalculateNextRetry(task.retry_count, reason, time, j),
                            reason, time)

\* _handle_failure: the calls on the circuit breaker
HandleFailureCalls(reason) ==
    IF IsSystemError(reason) THEN <<"record_failure">> ELSE <<>>

InitRetry ==
    /\ InitStore
    /\ InitNoApi
    /\ InitNoOther
    /\ tags = [h \in Hashes |-> {AddedTag}]
    /\ present = [h \in Hashes |-> TRUE]
    /\ done = [h \in Hashes |-> FALSE]
    /\ sup = "running"
    /\ crashes = 0
    /\ spc = Idle
    /\ wpc = [w \in Workers |-> "idle"]
    /\ wbatch = [w \in Workers |-> <<>>]
    /\ InitNoRetry
    /\ InitNoBreaker

RetryTick ==
    /\ now + RetryTickSeconds <= RetryMaxTime
    /\ now' = now + RetryTickSeconds
    /\ UNCHANGED <<tasks, apiVars, otherVars, remoteVars, coreVars, retryVars, breakerVars>>

\* _tag_based_scanner, for one torrent of one of its lists: task_exists,
\* save_task, add_tag(processing_tag), remove_tag(source tag)
RDiscover(h, t, ok1, ok2) ==
    /\ present[h]
    /\ SourceTag(t) \in tags[h]
    /\ \A r \in rtasks : KeyOf(r) # <<h, t>>
    /\ rtasks' = rtasks \cup {RNewRow(h, t, now)}
    /\ tags' = RemoveTagsFrom(AddTagsTo(tags, present, h, ProcessingTag, ok1),
                              present, h, SourceTag(t), ok2)
    /\ UNCHANGED <<tasks, now, apiVars, otherVars, present, done, coreVars, rwork, rlast, rgate, renv, breakerVars>>

\* a boolean a check returned, as the worker remembers it
Seen(b) == IF b THEN "yes" ELSE "no"

\* the health checker and the breaker change their answers (the remote engine
\* goes down or comes back, other callers record failures and successes)
REnvChange(unhealthy, rejecting) ==
    /\ renv' = [unhealthy |-> unhealthy, rejecting |-> rejecting]
    /\ renv' # renv
    /\ UNCHANGED <<tasks, now, apiVars, otherVars, remoteVars, coreVars, rtasks, rwork, rlast,
                   rgate, breakerVars>>

\* _task_processing_worker: if should_pause_processing(): sleep(30); continue
HealthGate(unhealthy) == IF unhealthy THEN "top" ELSE "healthy"

\* a mutant of BreakerGate: the worker goes on whatever the breaker says
BreakerGateIgnored(rejecting) == "admitted"

\* _task_processing_worker: if not can_execute(): sleep(10); continue
BreakerGate(rejecting) == IF rejecting THEN "top" ELSE "admitted"

\* _process_single_task: if not can_execute(): return
HandlerAdmitted(rejecting) == ~rejecting

\* _task_processing_worker: the health check at the top of the loop
RCheckHealth ==
    /\ rwork = <<>>
    /\ rgate.pc = "top"
    /\ rgate' = [pc |-> HealthGate(renv.unhealthy), unhealthy |-> Seen(renv.unhealthy),
                 rejecting |-> "unknown"]
    /\ UNCHANGED <<tasks, now, apiVars, otherVars, remoteVars, coreVars, rtasks, rwork, rlast,
                   renv, breakerVars>>

\* _task_processing_worker: the breaker check that follows
RCheckBreaker ==
    /\ rgate.pc = "healthy"
    /\ rgate' = [rgate EXCEPT !.pc = BreakerGate(renv.rejecting),
                              !.rejecting = Seen(renv.rejecting)]
    /\ UNCHANGED <<tasks, now, apiVars, otherVars, remoteVars, coreVars, rtasks, rwork, rlast,
                   renv, breakerVars>>

\* _task_processing_worker: get_pending_tasks returns no task; sleep(2)
RClaimNone ==
    /\ rwork = <<>>
    /\ rgate.pc = "admitted"
    /\ Eligible(rtasks, now) = {}
    /\ rgate' = [rgate EXCEPT !.pc = "top"]
    /\ UNCHANGED <<tasks, now, apiVars, otherVars, remoteVars, coreVars, rtasks, rwork, rlast,
                   renv, breakerVars>>

\* _task_processing_worker: get_pending_tasks(limit=self.batch_size)
RClaim ==
    /\ rwork = <<>>
    /\ rgate.pc = "admitted"
    /\ Eligible(rtasks, now) # {}
    /\ rgate' = [rgate EXCEPT !.pc = "top"]
    /\ \E q \in ClaimSeqs(rtasks, now, BatchSize) :
          /\ rtasks' = RClaimTable(rtasks, q, now)
          /\ rwork' = [i \in 1..Len(q) |-> TaskOf(q[i])]
    /\ UNCHANGED <<tasks, now, apiVars, otherVars, remoteVars, coreVars, rlast, renv, breakerVars>>

\* _process_single_task: the breaker does not admit the call; return
RSkip ==
    /\ rwork # <<>>
    /\ renv.rejecting
    /\ rgate' = [rgate EXCEPT !.rejecting = Seen(renv.rejecting)]
    /\ rlast' = [op |-> "skipped", task |-> Head(rwork), reason |-> <<>>,
                 engine |-> NoRetry, calls |-> <<>>, raised |-> FALSE, client |-> <<>>]
    /\ rwork' = Tail(rwork)
    /\ UNCHANGED <<tasks, now, apiVars, otherVars, remoteVars, coreVars, rtasks, renv, breakerVars>>

\* _process_single_task: result success (_handle_success, record_success,
\* remove_tag) or torrent_not_found (_handle_torrent_not_found)
RResolve(result, ok) ==
    /\ rwork # <<>>
    /\ HandlerAdmitted(renv.rejecting)
    /\ rgate' = [rgate EXCEPT !.rejecting = Seen(renv.rejecting)]
    /\ result \in {<<"success">>, <<"torrent_not_found">>}
    /\ rtasks' = {r \in rtasks : KeyOf(r) # Head(rwork).key}
    /\ tags' = RemoveTagsFrom(tags, present, Head(rwork).key[1], ProcessingTag, ok)
    /\ rlast' = [op |-> "resolved", task |-> Head(rwork), reason |-> result,
                 engine |-> NoRetry,
                 calls |-> IF result = <<"success">> THEN <<"record_success">> ELSE <<>>,
                 raised |-> FALSE, client |-> <<"remove_tag">>]
    /\ rwork' = Tail(rwork)
    /\ UNCHANGED <<tasks, now, apiVars, otherVars, present, done, coreVars, renv, breakerVars>>

\* _process_single_task: any other result; _handle_failure(task, result)
RFail(result, j) ==
    /\ rwork # <<>>
    /\ HandlerAdmitted(renv.rejecting)
    /\ rgate' = [rgate EXCEPT !.rejecting = Seen(renv.rejecting)]
    /\ Head(rwork).retry_count < MaxRetryCount
    /\ rtasks' = HandleFailureTable(rtasks, Head(rwork), result, now, j)
    /\ rlast' = [op |-> "failure", task |-> Head(rwork), reason |-> result,
                 engine |-> CalculateNextRetry(Head(rwork).retry_count, result, now, j),
                 calls |-> HandleFailureCalls(result), raised |-> FALSE,
                 client |-> <<>>]
    /\ rwork' = Tail(rwork)
    /\ UNCHANGED <<tasks, now, apiVars, otherVars, remoteVars, coreVars, renv, breakerVars>>

\* _process_single_task: the handler raises; _handle_failure(task,
\* f"exception:{e}") and record_failure
RRaise(j) ==
    /\ rwork # <<>>
    /\ HandlerAdmitted(renv.rejecting)
    /\ rgate' = [rgate EXCEPT !.rejecting = Seen(renv.rejecting)]
    /\ Head(rwork).retry_count < MaxRetryCount
    /\ rtasks' = HandleFailureTable(rtasks, Head(rwork), ExceptionReason, now, j)
    /\ rlast' = [op |-> "failure", task |-> Head(rwork), reason |-> ExceptionReason,
                 engine |-> CalculateNextRetry(Head(rwork).retry_count, ExceptionReason,
                                               now, j),
                 calls |-> HandleFailureCalls(ExceptionReason) \o <<"record_failure">>,
                 raised |-> TRUE, client |-> <<>>]
    /\ rwork' = Tail(rwork)
    /\ UNCHANGED <<tasks, now, apiVars, otherVars, remoteVars, coreVars, renv, breakerVars>>

NextRetry ==
    \/ RetryTick
    \/ \E h \in Hashes, t \in TaskTypes, ok1, ok2 \in BOOLEAN : RDiscover(h, t, ok1, ok2)
    \/ \E unhealthy, rejecting \in BOOLEAN : REnvChange(unhealthy, rejecting)
    \/ RCheckHealth
    \/ RCheckBreaker
    \/ RClaimNone
    \/ RClaim
    \/ RSkip
    \/ \E result \in {<<"success">>, <<"torrent_not_found">>}, ok \in BOOLEAN :
          RResolve(result, ok)
    \/ \E result \in FailureResults, j \in {-1, 0, 1} : RFail(result, j)
    \/ \E j \in {-1, 0, 1} : RRaise(j)

SpecRetry == InitRetry /\ [][NextRetry]_vars

\* the step in which _handle_failure has run for the head of the batch
FailureHandled ==
    /\ rwork # <<>>
    /\ rwork' = Tail(rwork)
    /\ rlast'.op = "failure"

----------------------------------------------------------------------------
(* circuit_breaker/breaker.py: the circuit breaker.  Its state is one row  *)
(* of table circuit_break_status; _load_breaker_state and                  *)
(* _save_breaker_state are a transaction each, so a call of the breaker is *)
(* a load, a decision, a second load (in _set_breaker_state or             *)
(* _update_breaker_state) and a save, and calls of different threads       *)
(* interleave between them.  last_failure_time and last_success_time are   *)
(* written and never read by the breaker; they are left out.               *)

\* breaker_configs["qbit_api"]
BreakerConfig ==
    [failure_threshold |-> 3, success_threshold |-> 2, timeout |-> 60,
     half_open_timeout |-> 30]

\* the breaker's clock advances by BreakerTickSeconds up to BreakerMaxTime
BreakerTickSeconds == 31
BreakerMaxTime == 62

\* _init_breaker_states: the initial row
InitialBreaker(time) ==
    [state |-> "closed", failure_count |-> 0, success_count |-> 0,
     last_state_change |-> time]

\* _allow_half_open_request
AllowHalfOpenRequest(st, time) ==
    \/ time - st.last_state_change > BreakerConfig.half_open_timeout
    \/ st.success_count < 1

\* can_execute, from the state loaded: what the call goes on to do
CanExecutePlan(st, time) ==
    IF st.state = "open" /\ time - st.last_state_change > BreakerConfig.timeout
    THEN [kind |-> "set", new_state |-> "half_open"]
    ELSE [kind |-> "return"]

\* can_execute: the value returned
CanExecuteResult(st, time) ==
    IF st.state = "open"
    THEN time - st.last_state_change > BreakerConfig.timeout
    ELSE IF st.state = "half_open" THEN AllowHalfOpenRequest(st, time)
    ELSE TRUE

\* can_execute returning without a transition: what the caller learns.  "probe"
\* is True returned while half_open (a test request), "closed" is True returned
\* while closed, "rejected" is False
CanExecuteReturn(st, time) ==
    IF ~CanExecuteResult(st, time) THEN "rejected"
    ELSE IF st.state = "half_open" THEN "probe"
    ELSE "closed"

\* record_success, from the state loaded: what the call goes on to do
RecordSuccessPlan(st) ==
    IF st.state = "half_open"
    THEN IF st.success_count + 1 >= BreakerConfig.success_threshold
         THEN [kind |-> "set", new_state |-> "closed"]
         ELSE [kind |-> "update", field |-> "success_count", value |-> st.success_count + 1]
    ELSE [kind |-> "update", field |-> "failure_count", value |-> 0]

\* record_failure, from the state loaded: what the call goes on to do
RecordFailurePlan(st) ==
    IF st.state = "half_open"
    THEN [kind |-> "set", new_state |-> "open"]
    ELSE IF st.failure_count + 1 >= BreakerConfig.failure_threshold
    THEN [kind |-> "set", new_state |-> "open"]
    ELSE [kind |-> "update", field |-> "failure_count", value |-> st.failure_count + 1]

BreakerPlan(op, st, time) ==
    IF op = "can_execute" THEN CanExecutePlan(st, time)
    ELSE IF op = "record_success" THEN RecordSuccessPlan(st)
    ELSE RecordFailurePlan(st)

\* _set_breaker_state: the state object after its assignments
SetBreakerState(st, new_state, time) ==
    LET moved == [st EXCEPT !.state = new_state, !.last_state_change = time]
    IN IF new_state = "closed"
       THEN [moved EXCEPT !.failure_count = 0, !.success_count = 0]
       ELSE IF new_state = "half_open"
       THEN [moved EXCEPT !.success_count = 0]
       ELSE moved

\* _update_breaker_state: the state object after setattr
UpdateBreakerState(st, plan) ==
    IF plan.field = "success_count"
    THEN [st EXCEPT !.success_count = plan.value]
    ELSE [st EXCEPT !.failure_count = plan.value]

BreakerOps == {"can_execute", "record_success", "record_failure"}

InitBreaker ==
    /\ InitStore
    /\ InitNoApi
    /\ InitNoOther
    /\ InitNoCore
    /\ InitNoRetry
    /\ bdb = InitialBreaker(0)
    /\ bpc = [c \in Threads |-> "idle"]
    /\ bloc = [c \in Threads |-> Idle]
    /\ bret = [c \in Threads |-> "none"]

BreakerTick ==
    /\ now + BreakerTickSeconds <= BreakerMaxTime
    /\ now' = now + BreakerTickSeconds
    /\ UNCHANGED <<tasks, apiVars, otherVars, remoteVars, coreVars, retryVars, breakerVars>>

\* can_execute / record_success / record_failure: _load_breaker_state and the
\* decision; can_execute returns here unless it moves the breaker to half_open
BreakerCall(c, op) ==
    /\ bpc[c] = "idle"
    /\ IF BreakerPlan(op, bdb, now).kind = "return"
       THEN /\ bret' = [bret EXCEPT ![c] = CanExecuteReturn(bdb, now)]
            /\ UNCHANGED <<bpc, bloc>>
       ELSE /\ bpc' = [bpc EXCEPT ![c] = "decided"]
            /\ bloc' = [bloc EXCEPT ![c] = [op |-> op, plan |-> BreakerPlan(op, bdb, now)]]
            /\ bret' = [bret EXCEPT ![c] = "none"]
    /\ UNCHANGED <<tasks, now, apiVars, otherVars, remoteVars, coreVars, retryVars, bdb>>

\* _set_breaker_state / _update_breaker_state: _load_breaker_state and the
\* assignments to the state object
BreakerLoad(c) ==
    /\ bpc[c] = "decided"
    /\ bpc' = [bpc EXCEPT ![c] = "loaded"]
    /\ bloc' = [bloc EXCEPT ![c] =
                  [op |-> bloc[c].op, plan |-> bloc[c].plan,
                   state |-> IF bloc[c].plan.kind = "set"
                             THEN SetBreakerState(bdb, bloc[c].plan.new_state, now)
                             ELSE UpdateBreakerState(bdb, bloc[c].plan)]]
    /\ UNCHANGED <<tasks, now, apiVars, otherVars, remoteVars, coreVars, retryVars, bdb, bret>>

\* _save_breaker_state: INSERT OR REPLACE of the whole row; the call returns
BreakerSave(c) ==
    /\ bpc[c] = "loaded"
    /\ bdb' = bloc[c].state
    /\ bpc' = [bpc EXCEPT ![c] = "idle"]
    /\ bloc' = [bloc EXCEPT ![c] = Idle]
    /\ bret' = [bret EXCEPT ![c] = IF bloc[c].op = "can_execute" THEN "probe" ELSE "none"]
    /\ UNCHANGED <<tasks, now, apiVars, otherVars, remoteVars, coreVars, retryVars>>

NextBreaker ==
    \/ BreakerTick
    \/ \E c \in Threads, op \in BreakerOps : BreakerCall(c, op)
    \/ \E c \in Threads : BreakerLoad(c)
    \/ \E c \in Threads : BreakerSave(c)

SpecBreaker == InitBreaker /\ [][NextBreaker]_vars

\* the step in which thread c's record_success call saves the row and returns
RecordSuccessSaves(c) ==
    /\ bpc[c] = "loaded"
    /\ bloc[c].op = "record_success"
    /\ bpc'[c] = "idle"

\* C10: breaker monotone while open -- while the state is open no
\* record_success call changes it to closed (the only transition out of open
\* is the one to half_open that can_execute takes after the timeout).
C10_RecordSuccessKeepsOpen ==
    [][\A c \in Threads :
          (RecordSuccessSaves(c) /\ bdb.state = "open") => bdb'.state # "closed"]_vars

\* the step in which thread c's record_failure call saves the row and returns
RecordFailureSaves(c) ==
    /\ bpc[c] = "loaded"
    /\ bloc[c].op = "record_failure"
    /\ bpc'[c] = "idle"

\* the step in which thread c's can_execute call returns without a transition
CanExecuteReturns(c) ==
    /\ bpc[c] = "idle"
    /\ bpc'[c] = "idle"
    /\ bret'[c] # bret[c] \/ bret'[c] # "none"
    /\ UNCHANGED <<bdb, now>>

\* C11: starting from closed, each record_failure increments failure_count
\* and the breaker is open once failure_threshold failures have been recorded
\* with no record_success in between; while it is open and no more than
\* timeout seconds have passed since the state change, can_execute returns
\* false.
C11_FailuresCountUpToOpen ==
    [][\A c \in Threads :
          /\ (RecordFailureSaves(c) /\ bdb.state = "closed")
                => \/ bdb'.state = "open"
                   \/ /\ bdb'.failure_count = bdb.failure_count + 1
                      /\ bdb'.failure_count < BreakerConfig.failure_threshold
          /\ (CanExecuteReturns(c) /\ bdb.state = "open"
                /\ now - bdb.last_state_change <= BreakerConfig.timeout)
                => bret'[c] = "rejected"]_vars

\* a record_success call of thread c that found the breaker half_open
SuccessInHalfOpen(c) ==
    /\ bloc[c].op = "record_success"
    /\ \/ bloc[c].plan.kind = "set"
       \/ bloc[c].plan.field = "success_count"

\* C12: in half_open each record_success increments success_count and, when
\* it reaches success_threshold, the breaker becomes closed with
\* failure_count and success_count 0; a record_failure in half_open moves the
\* breaker to open.
C12_HalfOpenCounting ==
    [][\A c \in Threads :
          /\ (RecordSuccessSaves(c) /\ SuccessInHalfOpen(c) /\ bdb.state = "half_open")
                => IF bdb.success_count + 1 >= BreakerConfig.success_threshold
                   THEN /\ bdb'.state = "closed"
                        /\ bdb'.failure_count = 0
                        /\ bdb'.success_count = 0
                   ELSE /\ bdb'.state = "half_open"
                        /\ bdb'.success_count = bdb.success_count + 1
          /\ (RecordFailureSaves(c) /\ bloc[c].plan.kind = "set"
                /\ bdb.state = "half_open")
                => bdb'.state = "open"]_vars

\* C13: while the breaker is half_open and half_open_timeout has not elapsed
\* since the state change, at most one of the can_execute calls made before
\* any outcome is recorded has returned true (the calls that made the
\* open -> half_open transition included).
C13_OneProbeAtATime ==
    (/\ bdb.state = "half_open"
     /\ now - bdb.last_state_change <= BreakerConfig.half_open_timeout
     /\ \A c \in Threads : bpc[c] = "idle")
        => Cardinality({c \in Threads : bret[c] = "probe"}) <= 1

----------------------------------------------------------------------------
(* The breaker as the workers use it (monitor/task_manager.py,             *)
(* _process_single_task): a worker asks can_execute, and only when it was  *)
(* admitted does it make the guarded call and record its outcome; a worker *)
(* that was rejected sleeps and asks again.  Time never stops: once the    *)
(* clock has reached BreakerMaxTime the passing of time is modelled by     *)
(* making every stored time stamp older, up to the age past which the      *)
(* breaker no longer distinguishes ages (timeout + 1).                     *)

\* the guarded calls can fail only before the first tick of the clock
CallsCanFail == now < BreakerTickSeconds

\* the worker was admitted by its last can_execute
Admitted(c) == bret[c] \in {"probe", "closed"}

\* the age past which can_execute and _allow_half_open_request treat all
\* time stamps alike
AgeCap == BreakerConfig.timeout + 1

\* a time stamp after d more seconds have passed, the clock standing at time
Older(ts, d, time) ==
    IF time - ts >= AgeCap THEN ts ELSE Max(ts - d, time - AgeCap)

\* time.time() moves on
LiveTick ==
    /\ IF now + BreakerTickSeconds <= BreakerMaxTime
       THEN /\ now' = now + BreakerTickSeconds
            /\ UNCHANGED <<bdb, bloc>>
       ELSE /\ now' = now
            /\ bdb' = [bdb EXCEPT !.last_state_change =
                                     Older(@, BreakerTickSeconds, now)]
            /\ bloc' = [c \in Threads |->
                          IF bpc[c] = "loaded"
                          THEN [bloc[c] EXCEPT !.state.last_state_change =
                                                 Older(@, BreakerTickSeconds, now)]
                          ELSE bloc[c]]
    /\ UNCHANGED <<tasks, apiVars, otherVars, remoteVars, coreVars, retryVars, bpc, bret>>

\* _process_single_task: can_execute first; record_success / record_failure
\* only for a call that was admitted
WorkerBreakerCall(c, op) ==
    /\ IF op = "can_execute" THEN ~Admitted(c) ELSE Admitted(c)
    /\ op = "record_failure" => CallsCanFail
    /\ BreakerCall(c, op)

WorkerBreakerStep(c) ==
    \/ \E op \in BreakerOps : WorkerBreakerCall(c, op)
    \/ BreakerLoad(c)
    \/ BreakerSave(c)

NextBreakerLive ==
    \/ LiveTick
    \/ \E c \in Threads, op \in BreakerOps : WorkerBreakerCall(c, op)
    \/ \E c \in Threads : BreakerLoad(c)
    \/ \E c \in Threads : BreakerSave(c)

\* the worker threads keep running and time keeps passing
SpecBreakerLive ==
    /\ InitBreaker
    /\ [][NextBreakerLive]_vars
    /\ WF_vars(LiveTick)
    /\ \A c \in Threads : WF_vars(WorkerBreakerStep(c))

\* C14: breaker recovery -- once the guarded calls all succeed, a breaker
\* that is open or half_open is closed again later: after the timeout a
\* probe is admitted (half_open) and success_threshold successful probes
\* close it; it never stays open or half_open forever.
C14_BreakerRecovers ==
    (bdb.state \in {"open", "half_open"}) ~> (bdb.state = "closed")

----------------------------------------------------------------------------
\* C15: translating a handler outcome, the worker records a failure on the
\* breaker exactly for the outcomes metadata_not_ready, qbit_api_error and
\* network_error, and never for retry_later nor on the unexpected-exception
\* path.
C15_BreakerFailureOnlyForSystemOutcomes ==
    [][FailureHandled =>
          ((\E i \in 1..Len(rlast'.calls) : rlast'.calls[i] = "record_failure")
             <=> rlast'.reason \in { <<"metadata_not_ready">>, <<"qbit_api_error">>,
                                    <<"network_error">> })]_vars

\* the step in which the worker claims tasks (get_pending_tasks returns some)
WorkerClaims ==
    /\ rwork = <<>>
    /\ rwork' # <<>>

\* the step in which the worker has invoked a task handler
HandlerInvoked ==
    /\ rwork # <<>>
    /\ rwork' = Tail(rwork)
    /\ rlast'.op \in {"resolved", "failure"}

----------------------------------------------------------------------------
\* the step in which worker w, told by the engine that the torrent of its task
\* does not exist, has run complete_task (_handle_missing_torrent)
MissingTorrentHandled(w) ==
    /\ wpc[w] = "gone"
    /\ wpc'[w] = "untag"

C18_NoFilesKeepsTask ==
    [][\A w \in Workers :
          wpc[w] = "no_files" => RowsOf(tasks', Head(wbatch[w])) # {}]_vars

\* C19: when the handler invocation raises, the worker calls remove_tag for
\* the processing tag (best effort: the call may fail) and records a
\* processing_exception retry; afterwards the task's row is failed with a
\* next_retry in the future, not processing.
C19_ExceptionBecomesRetry ==
    [][(FailureHandled /\ rlast'.raised) =>
          /\ \E i \in 1..Len(rlast'.client) : rlast'.client[i] = "remove_tag"
          /\ \E r \in rtasks' :
                /\ KeyOf(r) = rlast'.task.key
                /\ r.status = "failed"
                /\ r.next_retry > now
                /\ StartsWith(r.failure_reason, <<"processing_exception">>)]_vars

----------------------------------------------------------------------------
(* persistence/task_store.py: the task table with retry columns.  A row is *)
(* keyed by task_uuid (UNIQUE); the columns hash_file_path, current_phase, *)
(* last_attempt_time, last_success_time and updated_time are never read by *)
(* the modelled calls and are left out.  The rows live in rtasks, the worker's      *)
(* claimed Task objects in rwork, the call that returned last in rlast.    *)
(* The caller is a worker that records outcomes the way _handle_failure of *)
(* monitor/task_manager.py computes them.                                  *)

\* a NULL next_retry_time
Null == -1

\* save_task(Task(...)) of a new task: INSERT OR REPLACE of the Task's fields
PNewRow(h, t, time) ==
    [task_uuid |-> <<h, t>>, torrent_hash |-> h, task_type |-> t, status |-> "pending",
     retry_count |-> 0, failure_reason |-> <<>>, next_retry_time |-> Null,
     circuit_state |-> "closed", created_time |-> time]

\* a mutant of PEligible: next_retry_time is not looked at
PEligibleNoBackoff(tbl, time) ==
    {r \in tbl : r.status \in {"pending", "waiting"} /\ r.circuit_state = "closed"}

\* get_eligible_tasks, the WHERE clause
PEligible(tbl, time) ==
    {r \in tbl : /\ r.status \in {"pending", "waiting"}
                 /\ r.circuit_state = "closed"
                 /\ (r.next_retry_time = Null \/ r.next_retry_time <= time)}

\* get_eligible_tasks, ORDER BY CASE failure_reason WHEN ... END
PReasonRank(reason) ==
    IF reason = <<"metadata_not_ready">> THEN 1
    ELSE IF reason = <<"qbit_api_error">> THEN 2
    ELSE 3

\* get_eligible_tasks, ORDER BY: reason rank, retry_count ASC, created_time ASC
PClaimOrder(a, b) ==
    \/ PReasonRank(a.failure_reason) < PReasonRank(b.failure_reason)
    \/ /\ PReasonRank(a.failure_reason) = PReasonRank(b.failure_reason)
       /\ \/ a.retry_count < b.retry_count
          \/ a.retry_count = b.retry_count /\ a.created_time <= b.created_time

\* get_eligible_tasks, the rows of fetchall(): in order, LIMIT ?
PClaimSeqs(tbl, time, limit) ==
    LET E == PEligible(tbl, time)
        n == Min(limit, Cardinality(E))
    IN {q \in [1..n -> E] :
           /\ \A i, j \in 1..n : i # j => q[i] # q[j]
           /\ \A i, j \in 1..n : i < j => PClaimOrder(q[i], q[j])
           /\ \A r \in E : (\A i \in 1..n : q[i] # r) => \A i \in 1..n : PClaimOrder(q[i], r)}

\* get_eligible_tasks: UPDATE tasks SET status = 'processing', ... per task
PClaimTable(tbl, q, time) ==
    {IF \E i \in 1..Len(q) : q[i].task_uuid = r.task_uuid
     THEN [r EXCEPT !.status = "processing"]
     ELSE r : r \in tbl}

\* update_task_after_processing(task_uuid, success=True)
UpdateAfterSuccess(tbl, uuid, time) ==
    {IF r.task_uuid = uuid
     THEN [r EXCEPT !.status = "completed"]
     ELSE r : r \in tbl}

\* a mutant of UpdateAfterFailure: retry_count is not increased
UpdateAfterFailureNoCount(tbl, uuid, reason, next_retry_time, time) ==
    {IF r.task_uuid = uuid
     THEN [r EXCEPT !.status = "waiting", !.failure_reason = reason,
                    !.next_retry_time = next_retry_time]
     ELSE r : r \in tbl}

\* update_task_after_processing(task_uuid, success=False, failure_reason,
\* next_retry_time=...)
UpdateAfterFailure(tbl, uuid, reason, next_retry_time, time) ==
    {IF r.task_uuid = uuid
     THEN [r EXCEPT !.status = "waiting", !.retry_count = @ + 1,
                    !.failure_reason = reason, !.next_retry_time = next_retry_time]
     ELSE r : r \in tbl}

\* delete_task: DELETE FROM tasks WHERE torrent_hash = ? AND task_type = ?
PDeleteTable(tbl, h, t) == {r \in tbl : ~(r.torrent_hash = h /\ r.task_type = t)}

\* _handle_failure: the time and the reason a failed attempt is recorded with
RecordedRetryTime(retry_count, reason, time, j) ==
    IF CalculateNextRetry(retry_count, reason, time, j) = NoRetry
    THEN ExhaustedRetryTime(time)
    ELSE CalculateNextRetry(retry_count, reason, time, j)

RecordedReason(retry_count, reason, time, j) ==
    IF CalculateNextRetry(retry_count, reason, time, j) = NoRetry
    THEN ExhaustedReason(reason)
    ELSE reason

\* the reasons the worker records: one of each rank of the claim order, the
\* last one of a strategy with a retry budget
PFailureReasons ==
    { <<"metadata_not_ready">>, <<"qbit_api_error">>, <<"torrent_not_found", ":recheck">> }

InitPersist == InitRetry

\* task_exists is false; save_task of a new Task
PSave(h, t) ==
    /\ \A r \in rtasks : ~(r.torrent_hash = h /\ r.task_type = t)
    /\ rtasks' = rtasks \cup {PNewRow(h, t, now)}
    /\ rlast' = [op |-> "save", uuid |-> <<h, t>>]
    /\ UNCHANGED <<tasks, now, apiVars, otherVars, remoteVars, coreVars, rwork, rgate, renv,
                   breakerVars>>

\* get_eligible_tasks(limit)
PClaim(limit) ==
    /\ rwork = <<>>
    /\ PEligible(rtasks, now) # {}
    /\ \E q \in PClaimSeqs(rtasks, now, limit) :
          /\ rtasks' = PClaimTable(rtasks, q, now)
          /\ rwork' = [i \in 1..Len(q) |->
                          [uuid |-> q[i].task_uuid, retry_count |-> q[i].retry_count]]
    /\ rlast' = [op |-> "claim", uuid |-> <<>>, limit |-> limit]
    /\ UNCHANGED <<tasks, now, apiVars, otherVars, remoteVars, coreVars, rgate, renv, breakerVars>>

\* the attempt succeeded: update_task_after_processing(uuid, True)
PSucceed ==
    /\ rwork # <<>>
    /\ rtasks' = UpdateAfterSuccess(rtasks, Head(rwork).uuid, now)
    /\ rlast' = [op |-> "recorded_success", uuid |-> Head(rwork).uuid]
    /\ rwork' = Tail(rwork)
    /\ UNCHANGED <<tasks, now, apiVars, otherVars, remoteVars, coreVars, rgate, renv, breakerVars>>

\* the attempt failed: update_task_after_processing(uuid, False, reason,
\* next_retry_time)
PFail(reason, j) ==
    /\ rwork # <<>>
    /\ Head(rwork).retry_count < MaxRetryCount
    /\ rtasks' = UpdateAfterFailure(rtasks, Head(rwork).uuid,
                      RecordedReason(Head(rwork).retry_count, reason, now, j),
                      RecordedRetryTime(Head(rwork).retry_count, reason, now, j), now)
    /\ rlast' = [op |-> "recorded_failure", uuid |-> Head(rwork).uuid,
                 reason |-> reason, retry_count |-> Head(rwork).retry_count,
                 engine |-> CalculateNextRetry(Head(rwork).retry_count, reason, now, j)]
    /\ rwork' = Tail(rwork)
    /\ UNCHANGED <<tasks, now, apiVars, otherVars, remoteVars, coreVars, rgate, renv, breakerVars>>

\* delete_task of a completed task
PDelete(h, t) ==
    /\ \E r \in rtasks : r.torrent_hash = h /\ r.task_type = t /\ r.status = "completed"
    /\ rtasks' = PDeleteTable(rtasks, h, t)
    /\ rlast' = [op |-> "delete", uuid |-> <<h, t>>]
    /\ UNCHANGED <<tasks, now, apiVars, otherVars, remoteVars, coreVars, rwork, rgate, renv,
                   breakerVars>>

NextPersist ==
    \/ RetryTick
    \/ \E h \in Hashes, t \in TaskTypes : PSave(h, t)
    \/ \E limit \in 1..MaxLimit : PClaim(limit)
    \/ PSucceed
    \/ \E reason \in PFailureReasons, j \in {0, 1} : PFail(reason, j)
    \/ \E h \in Hashes, t \in TaskTypes : PDelete(h, t)

SpecPersist == InitPersist /\ [][NextPersist]_vars

\* the step in which a failed attempt has been recorded for the head of rwork
FailureRecorded ==
    /\ rwork # <<>>
    /\ rwork' = Tail(rwork)
    /\ rlast'.op = "recorded_failure"

\* what recording a failed attempt does to the row, whose status becomes st
FailureRecordedAs(st) ==
    \A r \in rtasks : r.task_uuid = Head(rwork).uuid =>
       \E n \in rtasks' :
          /\ n.task_uuid = r.task_uuid
          /\ n.status = st
          /\ n.retry_count = r.retry_count + 1
          /\ n.next_retry_time > now
          /\ n.failure_reason # <<>>
          /\ rtasks' = (rtasks \ {r}) \cup {n}

Claimed == rwork = <<>> /\ rlast'.op = "claim"

\* the task_uuids the claim has returned
ClaimedUuids == {rwork'[i].uuid : i \in 1..Len(rwork')}

\* a task that waits for a retry after a recorded failed attempt: it is
\* neither new, nor held by a worker, nor done
AwaitsRetry(r) == r.retry_count > 0 /\ r.status \notin {"pending", "processing", "completed"}

\* what a claim does with backoff, where st is the status of a task that
\* awaits its retry
BackoffRespected(st) ==
    /\ \A r \in rtasks : r.next_retry_time > now => r.task_uuid \notin ClaimedUuids
    /\ Cardinality(ClaimedUuids) <= rlast'.limit
    /\ Len(rwork') <= rlast'.limit
    /\ \A r \in rtasks :
          (AwaitsRetry(r) /\ r.next_retry_time <= now) =>
             /\ r.status = st
             /\ rlast'.limit >= Cardinality(PEligible(rtasks, now)) =>
                   r.task_uuid \in ClaimedUuids

C22_RetryBudget ==
    [][FailureRecorded =>
         /\ (rlast'.engine = NoRetry) <=>
               /\ GetStrategy(rlast'.reason).max_retries # Unlimited
               /\ rlast'.retry_count >= GetStrategy(rlast'.reason).max_retries
         /\ (rlast'.engine = NoRetry) <=>
               /\ StartsWith(rlast'.reason, <<"torrent_not_found">>)
               /\ rlast'.retry_count >= 3
         /\ rlast'.engine # NoRetry => rlast'.engine > now]_vars

\* C22, the case: the engine has returned None for the fourth failure of a
\* task with a torrent_not_found reason
C22_Witness ==
    /\ rlast.op = "recorded_failure"
    /\ rlast.engine = NoRetry
    /\ rlast.retry_count = 3
    /\ \E r \in rtasks : r.task_uuid = rlast.uuid /\ r.retry_count = 4

----------------------------------------------------------------------------
(* circuit_breaker/health_checker.py: QBittorrentHealthChecker over the     *)
(* client of core/client.py.  A probe is one call of get_app_version; the   *)
(* engine answers it fast, slowly (more than 5 s) or with an error.         *)

EngineAnswers == {"fast", "slow", "error"}

\* QBittorrentClient.get_app_version: what the call gives to its caller
GetAppVersion(answer) ==
    IF answer = "error"
    THEN [raised |-> FALSE, version |-> "unknown"]
    ELSE [raised |-> FALSE, version |-> "v"]

\* QBittorrentHealthChecker.__init__
InitialHealth(time) == [status |-> "healthy", last_check |-> time, consecutive_failures |-> 0]

\* check_health: the checker after the call; inside the check interval
\* nothing is probed
CheckHealth(h, answer, time) ==
    IF time - h.last_check < HealthCheckInterval THEN h
    ELSE IF GetAppVersion(answer).raised
    THEN [status |-> IF h.consecutive_failures + 1 >= 3 THEN "unhealthy" ELSE "degraded",
          last_check |-> time,
          consecutive_failures |-> h.consecutive_failures + 1]
    ELSE [status |-> IF answer = "slow" THEN "degraded" ELSE "healthy",
          last_check |-> time,
          consecutive_failures |-> 0]

\* check_health has called get_app_version
Probed(h, time) == time - h.last_check >= HealthCheckInterval

\* the failed probes in a row, after a call of check_health
FailedProbes(n, h, answer, time) ==
    IF ~Probed(h, time) THEN n
    ELSE IF answer = "error" THEN n + 1
    ELSE 0

InitHealth ==
    /\ InitStore
    /\ InitNoApi
    /\ InitNoCore
    /\ InitNoRetry
    /\ InitNoBreaker
    /\ InitNoFailures
    /\ InitNoClaims
    /\ InitNoTxn
    /\ InitNoStrategy
    /\ InitNoStalled
    /\ InitNoFiles
    /\ InitNoAdded
    /\ health = InitialHealth(0)
    /\ hprobe = [failed |-> 0, paused |-> "none"]

HealthTick ==
    /\ now + HealthTickSeconds <= HealthMaxTime
    /\ now' = now + HealthTickSeconds
    /\ UNCHANGED <<tasks, apiVars, remoteVars, coreVars, monitorVars, healthVars, stalledVars, fileVars, addedVars, strategyVars, txnVars, claimVars, failureVars>>

\* get_processing_speed_factor / get_system_load_status: check_health
HCheckHealth(answer) ==
    /\ Probed(health, now) /\ answer = "error" => hprobe.failed < MaxFailedProbes
    /\ health' = CheckHealth(health, answer, now)
    /\ hprobe' = [hprobe EXCEPT !.failed = FailedProbes(@, health, answer, now)]
    /\ UNCHANGED <<tasks, now, apiVars, remoteVars, coreVars, monitorVars, stalledVars, fileVars, addedVars, strategyVars, txnVars, claimVars, failureVars>>

\* should_pause_processing
HShouldPause(answer) ==
    /\ Probed(health, now) /\ answer = "error" => hprobe.failed < MaxFailedProbes
    /\ health' = CheckHealth(health, answer, now)
    /\ hprobe' = [failed |-> FailedProbes(hprobe.failed, health, answer, now),
                  paused |-> Seen(health'.status = "unhealthy")]
    /\ UNCHANGED <<tasks, now, apiVars, remoteVars, coreVars, monitorVars, stalledVars, fileVars, addedVars, strategyVars, txnVars, claimVars, failureVars>>

NextHealth ==
    \/ HealthTick
    \/ \E answer \in EngineAnswers : HCheckHealth(answer)
    \/ \E answer \in EngineAnswers : HShouldPause(answer)

SpecHealth == InitHealth /\ [][NextHealth]_vars

\* C23: after 3 failed probes in a row the status is unhealthy and
\* should_pause_processing returns true, after 1 or 2 it is degraded and
\* should_pause_processing returns false; should_pause_processing returns
\* true iff the status is unhealthy.
C23_HealthClassification ==
    /\ hprobe.failed >= 3 => health.status = "unhealthy"
    /\ hprobe.failed \in {1, 2} => health.status = "degraded"
    /\ hprobe.paused = "yes" => health.status = "unhealthy"
    /\ hprobe.paused = "no" => health.status # "unhealthy"

----------------------------------------------------------------------------
(* monitor/stalled_monitor.py: StalledSeedMonitor.  Progress is counted in  *)
(* units of 0.0005, so that 0.001 is 2 units and progress_threshold (0.95)  *)
(* is 1900 units.  One pass of scan_and_process works on the list it        *)
(* fetched at its start and on tracked_seeds, which no other thread         *)
(* touches; its remote calls are the fetch and torrents_bottom_priority.    *)

\* the progress a download can show: two values 0.001 apart, one further
\* away, one not below the threshold
ProgressValues == {0, 2, 5, 1900}

\* StalledMonitorConfig.progress_threshold
ProgressThreshold == 1900

\* _get_stalled_torrents: the hashes of the list; [] when the fetch raises
GetStalledTorrents(eng, fails) ==
    IF fails THEN {}
    ELSE {h \in Hashes : eng[h].stalled /\ eng[h].progress < ProgressThreshold}

\* _get_or_create_seed_info
GetOrCreateSeedInfo(entry, progress, time) ==
    IF entry # Idle THEN entry
    ELSE [progress |-> progress, tracked_since |-> time, priority_downgraded |-> FALSE]

\* a mutant of HasProgressChanged: a difference of 0.001 counts as a change
HasProgressChangedAtThreshold(entry, progress) ==
    IF progress >= entry.progress THEN progress - entry.progress >= 2
    ELSE entry.progress - progress >= 2

\* _has_progress_changed: abs(current_progress - seed_info.progress) > 0.001
HasProgressChanged(entry, progress) ==
    IF progress >= entry.progress THEN progress - entry.progress > 2
    ELSE entry.progress - progress > 2

\* a mutant of ShouldDowngradePriority: priority_downgraded is not looked at
ShouldDowngradeAgain(entry, time) ==
    time - entry.tracked_since >= MinStalledMinutes * 60

\* _should_downgrade_priority
ShouldDowngradePriority(entry, time) ==
    IF entry.priority_downgraded THEN FALSE
    ELSE time - entry.tracked_since >= MinStalledMinutes * 60

\* _process_stalled_torrent: the torrent's entry after it, and whether
\* torrents_bottom_priority was called; callOk: the call did not raise
ProcessStalledTorrent(entry, progress, time, callOk) ==
    LET info == GetOrCreateSeedInfo(entry, progress, time)
        seen == [info EXCEPT !.progress = progress]
    IN IF HasProgressChanged(info, progress)
       THEN [entry |-> [info EXCEPT !.tracked_since = time, !.progress = progress],
             called |-> FALSE]
       ELSE IF ShouldDowngradePriority(seen, time)
       THEN [entry |-> IF callOk THEN [seen EXCEPT !.priority_downgraded = TRUE] ELSE seen,
             called |-> TRUE]
       ELSE [entry |-> seen, called |-> FALSE]

\* a mutant of CleanupRecoveredSeeds: nothing is evicted
CleanupNothing(map, current) == map

\* _cleanup_recovered_seeds
CleanupRecoveredSeeds(map, current) ==
    [h \in Hashes |-> IF h \in current THEN map[h] ELSE Idle]

InitStalled ==
    /\ InitStore
    /\ InitNoApi
    /\ InitNoCore
    /\ InitNoRetry
    /\ InitNoBreaker
    /\ InitNoFailures
    /\ InitNoClaims
    /\ InitNoTxn
    /\ InitNoStrategy
    /\ InitNoHealth
    /\ InitNoFiles
    /\ InitNoAdded
    /\ seeds = [h \in Hashes |-> Idle]
    /\ sengine = [h \in Hashes |-> [progress |-> 0, stalled |-> TRUE]]
    /\ slast = [op |-> "none", pass |-> 0]
    /\ srun = TRUE
    /\ sdemoted = [h \in Hashes |-> 0]

StalledTick ==
    /\ now + StalledTickSeconds <= StalledMaxTime
    /\ now' = now + StalledTickSeconds
    /\ UNCHANGED <<tasks, apiVars, remoteVars, coreVars, monitorVars, healthVars, stalledVars, fileVars, addedVars, strategyVars, txnVars, claimVars, failureVars>>

\* the download moves or changes its state in the engine
SEngineChange(h, progress, stalled) ==
    /\ sengine[h] # [progress |-> progress, stalled |-> stalled]
    /\ sengine' = [sengine EXCEPT ![h] = [progress |-> progress, stalled |-> stalled]]
    /\ UNCHANGED <<tasks, now, apiVars, remoteVars, coreVars, monitorVars, healthVars, fileVars,
                   seeds, slast, srun, sdemoted, addedVars, strategyVars, txnVars, claimVars, failureVars>>

\* _monitor_loop: one scan_and_process.  fails: the fetch raises; stopped:
\* stop() has cleared running before the loop over the list starts
ScanAndProcess(fails, callOk, stopped) ==
    LET current == GetStalledTorrents(sengine, fails)
        result(h) == ProcessStalledTorrent(seeds[h], sengine[h].progress, now, callOk)
        worked == IF stopped THEN {} ELSE current
        calls == {h \in worked : result(h).called}
        tracked == [h \in Hashes |-> IF h \in worked THEN result(h).entry ELSE seeds[h]]
    IN /\ srun
       /\ \A h \in calls : callOk => sdemoted[h] < MaxDemotions
       /\ seeds' = CleanupRecoveredSeeds(tracked, current)
       /\ srun' = ~stopped
       /\ slast' = [op |-> "scan", pass |-> 1 - slast.pass, fetched |-> current, worked |-> worked, calls |-> calls,
                    succeeded |-> IF callOk THEN calls ELSE {}]
       /\ sdemoted' = [h \in Hashes |->
                          IF seeds'[h] = Idle THEN 0
                          ELSE IF seeds[h] = Idle THEN (IF callOk /\ h \in calls THEN 1 ELSE 0)
                          ELSE IF callOk /\ h \in calls THEN sdemoted[h] + 1
                          ELSE sdemoted[h]]
       /\ UNCHANGED <<tasks, now, apiVars, remoteVars, coreVars, monitorVars, healthVars, fileVars,
                      sengine, addedVars, strategyVars, txnVars, claimVars, failureVars>>

\* main.py: start() of the monitor after a stop
SStart ==
    /\ ~srun
    /\ srun' = TRUE
    /\ UNCHANGED <<tasks, now, apiVars, remoteVars, coreVars, monitorVars, healthVars, fileVars,
                   seeds, sengine, slast, sdemoted, addedVars, strategyVars, txnVars, claimVars, failureVars>>

NextStalled ==
    \/ StalledTick
    \/ \E h \in Hashes, p \in ProgressValues, st \in BOOLEAN : SEngineChange(h, p, st)
    \/ \E fails, callOk, stopped \in BOOLEAN : ScanAndProcess(fails, callOk, stopped)
    \/ SStart

SpecStalled == InitStalled /\ [][NextStalled]_vars

\* a pass of scan_and_process has ended
Scanned == slast'.op = "scan" /\ slast'.pass # slast.pass

\* C24: while a torrent's entry stays in tracked_seeds, torrents_bottom_priority
\* succeeds for it at most once; once priority_downgraded is true it stays
\* true and no further call is made for the torrent, also when its progress
\* changes and tracked_since is reset, until the entry is evicted.
C24_DemotedOnce ==
    /\ [](\A h \in Hashes : sdemoted[h] <= 1)
    /\ [][\A h \in Hashes :
            (Scanned /\ seeds[h] # Idle /\ seeds[h].priority_downgraded) =>
               /\ h \notin slast'.calls
               /\ seeds'[h] # Idle => seeds'[h].priority_downgraded]_vars

\* C24, the case: a demoted torrent whose progress changed later, so that
\* tracked_since was reset, has stayed stalled for min_stalled_minutes again
C24_Witness ==
    \E h \in Hashes :
       /\ seeds[h] # Idle
       /\ seeds[h].priority_downgraded
       /\ seeds[h].tracked_since > 0
       /\ seeds[h].progress = 5
       /\ now - seeds[h].tracked_since >= MinStalledMinutes * 60
       /\ slast.op = "scan" /\ h \in slast.worked /\ slast.calls = {}

\* C25: a pass calls torrents_bottom_priority for a torrent only when the
\* entry's priority_downgraded is false and now - tracked_since >=
\* min_stalled_minutes * 60; tracked_since is the time of the pass that created
\* the entry or of the last pass that saw the progress differ from the tracked
\* one by more than 0.001, and such a pass stores the progress and sets
\* tracked_since to now.
C25_StagnationWindow ==
    [][\A h \in Hashes :
          (Scanned /\ h \in slast'.worked) =>
             LET old == seeds[h]
                 diff == IF old = Idle THEN 0
                         ELSE IF sengine[h].progress >= old.progress
                         THEN sengine[h].progress - old.progress
                         ELSE old.progress - sengine[h].progress
             IN /\ h \in slast'.calls =>
                      /\ old # Idle
                      /\ ~old.priority_downgraded
                      /\ diff <= 2
                      /\ now - old.tracked_since >= MinStalledMinutes * 60
                /\ diff > 2 =>
                      /\ seeds'[h].tracked_since = now
                      /\ seeds'[h].progress = sengine[h].progress
                /\ old = Idle => seeds'[h].tracked_since = now
                /\ (old # Idle /\ diff <= 2) => seeds'[h].tracked_since = old.tracked_since]_vars

\* C25, the case: a torrent whose progress changed after its first
\* observation is demoted min_stalled_minutes after that change
C25_Witness ==
    \E h \in Hashes :
       /\ slast.op = "scan" /\ h \in slast.succeeded
       /\ seeds[h] # Idle
       /\ seeds[h].priority_downgraded
       /\ seeds[h].tracked_since > 0
       /\ now - seeds[h].tracked_since >= MinStalledMinutes * 60

\* C26: after every pass of scan_and_process tracked_seeds holds only torrents
\* of the stalled list the pass fetched.
C26_OnlyStalledTracked ==
    [][Scanned => \A h \in Hashes : seeds'[h] # Idle => h \in slast'.fetched]_vars

\* C26, the case: a pass has evicted the entry of a torrent that is not in
\* the list it fetched
C26_Witness ==
    \E h \in Hashes :
       /\ slast.op = "scan" /\ h \notin slast.fetched
       /\ seeds[h] = Idle
       /\ sengine[h].progress = 5
       /\ ~sengine[h].stalled

----------------------------------------------------------------------------
(* core/files.py: FileManager.clean_directory on a content path.  A path is *)
(* a sequence of names; the content path is <<"X">>, beside it lies a file  *)
(* of another download.  A name tells what the entry is and which patterns  *)
(* match it: with file_patterns ["\.nfo$"] and folder_patterns ["^sample$"] *)
(* "a.nfo" is a file to delete, "a.mkv" a file to keep, "sample" a          *)
(* directory to delete and "season" a directory to keep.  Deletions do not  *)
(* fail.                                                                    *)

ContentPath == <<"X">>

\* what lies beside the content path
Outside == {<<"a.nfo">>}

\* the paths a download can have under the content path
Paths ==
    { <<"X">>,
      <<"X", "a.nfo">>, <<"X", "a.mkv">>, <<"X", "sample">>, <<"X", "season">>,
      <<"X", "sample", "a.mkv">>, <<"X", "sample", "season">>,
      <<"X", "season", "a.nfo">>, <<"X", "season", "a.mkv">>,
      <<"X", "season", "sample">>, <<"X", "season", "season">>,
      <<"X", "season", "sample", "a.mkv">>,
      <<"X", "season", "season", "a.nfo">>, <<"X", "season", "season", "a.mkv">> }

\* os.path.basename / DirEntry.name
BaseName(p) == p[Len(p)]

\* os.path.dirname
DirName(p) == SubSeq(p, 1, Len(p) - 1)

\* DirEntry.is_dir
IsDir(p) == BaseName(p) \in {"X", "sample", "season"}

\* a mutant of ShouldDeleteFile: every file matches
ShouldDeleteAnyFile(name) == TRUE

\* should_delete_file
ShouldDeleteFile(name) == name = "a.nfo"

\* should_delete_folder
ShouldDeleteFolder(name) == name = "sample"

\* os.scandir(d)
ScanDir(fs, d) == {p \in fs : Len(p) = Len(d) + 1 /\ DirName(p) = d}

\* what shutil.rmtree(d) removes
SubTree(fs, d) == {p \in fs : Len(p) >= Len(d) /\ SubSeq(p, 1, Len(d)) = d}

\* _clean_empty_directory
CleanEmptyDirectory(fs, d) == IF ScanDir(fs, d) = {} THEN fs \ {d} ELSE fs

RECURSIVE CleanDirectoryRecursive(_, _)
RECURSIVE ProcessDirectoryEntry(_, _)
RECURSIVE ProcessDirectoryEntries(_, _)

\* a mutant of ProcessDirectoryEntries: the loop stops after one directory
ProcessOneDirectoryEntry(st, S) ==
    IF S = {} THEN st
    ELSE ProcessDirectoryEntry(st, CHOOSE e \in S : TRUE)

\* _clean_directory_recursive, the loop over the directories of the first
\* scan; st is the file system with the counts so far
ProcessDirectoryEntries(st, S) ==
    IF S = {} THEN st
    ELSE LET e == CHOOSE e \in S : TRUE
         IN ProcessDirectoryEntries(ProcessDirectoryEntry(st, e), S \ {e})

\* _process_directory_entry
ProcessDirectoryEntry(st, e) ==
    IF ShouldDeleteFolder(BaseName(e))
    THEN [st EXCEPT !.fs = @ \ SubTree(@, e), !.folders = @ + 1]
    ELSE CleanDirectoryRecursive(st, e)

\* _clean_directory_recursive, with _process_file_entry for the files of
\* the second scan
CleanDirectoryRecursive(st, d) ==
    LET dirs == ProcessDirectoryEntries(st, {e \in ScanDir(st.fs, d) : IsDir(e)})
        matching == {e \in ScanDir(dirs.fs, d) : ~IsDir(e) /\ ShouldDeleteFile(BaseName(e))}
    IN [fs |-> CleanEmptyDirectory(dirs.fs \ matching, d),
        files |-> dirs.files + Cardinality(matching),
        folders |-> dirs.folders]

\* clean_directory (of a directory)
CleanDirectory(fs, d) ==
    IF d \notin fs THEN [fs |-> fs, files |-> 0, folders |-> 0]
    ELSE CleanDirectoryRecursive([fs |-> fs, files |-> 0, folders |-> 0], d)

InitClean ==
    /\ InitStore
    /\ InitNoApi
    /\ InitNoCore
    /\ InitNoRetry
    /\ InitNoBreaker
    /\ InitNoFailures
    /\ InitNoClaims
    /\ InitNoTxn
    /\ InitNoStrategy
    /\ InitNoHealth
    /\ InitNoStalled
    /\ InitNoAdded
    /\ tree = Outside \cup {ContentPath}
    /\ clast = Idle

\* the engine writes a file or makes a directory under the content path
FWrite(p) ==
    /\ p \notin tree
    /\ p = ContentPath \/ DirName(p) \in tree
    /\ tree' = tree \cup {p}
    /\ clast' = [op |-> "write"]
    /\ UNCHANGED <<tasks, now, apiVars, remoteVars, coreVars, monitorVars, healthVars,
                   stalledVars, addedVars, strategyVars, txnVars, claimVars, failureVars>>

\* _process_completed_task: clean_directory(content_path)
FClean ==
    /\ clast.op = "clean" => clast.calls < MaxCleans
    /\ tree' = CleanDirectory(tree, ContentPath).fs
    /\ clast' = [op |-> "clean", before |-> tree,
                 files |-> CleanDirectory(tree, ContentPath).files,
                 folders |-> CleanDirectory(tree, ContentPath).folders,
                 calls |-> IF clast.op = "clean" THEN clast.calls + 1 ELSE 1]
    /\ UNCHANGED <<tasks, now, apiVars, remoteVars, coreVars, monitorVars, healthVars,
                   stalledVars, addedVars, strategyVars, txnVars, claimVars, failureVars>>

NextClean ==
    \/ \E p \in Paths : FWrite(p)
    \/ FClean

SpecClean == InitClean /\ [][NextClean]_vars

\* C28: a clean_directory call that follows a clean_directory call on the
\* same path, with nothing written in between, returns (0, 0) and leaves the
\* tree as it is.
C28_CleanIdempotent ==
    [][(clast.op = "clean" /\ clast'.op = "clean" /\ clast'.calls = clast.calls + 1) =>
          /\ clast'.files = 0
          /\ clast'.folders = 0
          /\ tree' = tree]_vars

\* C28, the case: a second call on the tree a first call has left, in which
\* a file is kept in a directory
C28_Witness ==
    /\ clast.op = "clean"
    /\ clast.calls = 2
    /\ clast.before = tree
    /\ tree = Outside \cup {<<"X">>, <<"X", "season">>, <<"X", "season", "a.mkv">>}

\* a clean_directory call has returned
Cleaned == clast'.op = "clean" /\ clast' # clast

----------------------------------------------------------------------------
(* core/tasks.py: one worker followed through an added task, with the file  *)
(* list of the torrent.  A file is its position in the list (index =        *)
(* position - 1), whether its name matches a disable pattern, and its       *)
(* priority (0: not downloaded, 1: normal).                                 *)

FileKinds == [matches : BOOLEAN, priority : {0, 1}]

\* get_torrent_files: the lists the engine can answer; <<>> also when the
\* call raised
TorrentFiles == UNION {[1..n -> FileKinds] : n \in 0..MaxFiles}

\* a mutant of GetFilesToDisable: the priority is not looked at
GetMatchingFiles(files) == {i - 1 : i \in {j \in 1..Len(files) : files[j].matches}}

\* _get_files_to_disable
GetFilesToDisable(files) ==
    {i - 1 : i \in {j \in 1..Len(files) : files[j].priority # 0 /\ files[j].matches}}

\* _process_added_task: the set_file_priority calls it makes
AddedTaskCalls(files) ==
    IF files = <<>> \/ GetFilesToDisable(files) = {} THEN <<>>
    ELSE <<GetFilesToDisable(files)>>

\* _process_added_task: its result; ok: set_file_priority returned True
AddedTaskResult(files, ok) ==
    IF files = <<>> THEN "no_files"
    ELSE IF GetFilesToDisable(files) = {} THEN "succeeded"
    ELSE IF ok THEN "succeeded"
    ELSE "failed"

\* the worker before it has claimed the task
NoAddedTask ==
    [pc |-> "idle", hash |-> "none", files |-> <<>>, calls |-> <<>>, untagged |-> "none"]

InitAdded ==
    /\ InitStore
    /\ InitNoApi
    /\ tags = [h \in Hashes |-> {AddedTag}]
    /\ present = [h \in Hashes |-> TRUE]
    /\ done = [h \in Hashes |-> FALSE]
    /\ sup = "running"
    /\ crashes = 0
    /\ spc = Idle
    /\ wpc = [w \in Workers |-> "idle"]
    /\ wbatch = [w \in Workers |-> <<>>]
    /\ InitNoRetry
    /\ InitNoBreaker
    /\ InitNoFailures
    /\ InitNoClaims
    /\ InitNoTxn
    /\ InitNoStrategy
    /\ InitNoHealth
    /\ InitNoStalled
    /\ InitNoFiles
    /\ aproc = NoAddedTask

\* _process_added_torrent of the scanner: save_task, add_tag(processing_tag),
\* remove_tag(added_tag)
ADiscover(h, ok1, ok2) ==
    /\ AddedTag \in tags[h]
    /\ ~TaskExists(tasks, h, "added")
    /\ tasks' = tasks \cup {NewRow(h, "added", now)}
    /\ tags' = RemoveTagsFrom(AddTagsTo(tags, present, h, ProcessingTag, ok1),
                              present, h, AddedTag, ok2)
    /\ UNCHANGED <<now, apiVars, present, done, coreVars, monitorVars, healthVars,
                   stalledVars, fileVars, addedVars, strategyVars, txnVars, claimVars, failureVars>>

\* get_pending_tasks returns the task
AClaim(h) ==
    /\ aproc.pc = "idle"
    /\ \E q \in SelectPending(tasks, WorkerLimit) :
          /\ <<h, "added">> \in SnapKeys(ClaimResult(tasks, RowKeys(q)))
          /\ tasks' = ClaimTable(tasks, RowKeys(q), now)
    /\ aproc' = [pc |-> "claimed", hash |-> h, files |-> <<>>, calls |-> <<>>,
                 untagged |-> "none"]
    /\ UNCHANGED <<now, apiVars, remoteVars, coreVars, monitorVars, healthVars,
                   stalledVars, fileVars, strategyVars, txnVars, claimVars, failureVars>>

\* _process_task: _process_added_task on the torrent
AProcess(files, ok) ==
    /\ aproc.pc = "claimed"
    /\ aproc' = [aproc EXCEPT !.pc = AddedTaskResult(files, ok), !.files = files,
                               !.calls = AddedTaskCalls(files)]
    /\ UNCHANGED <<tasks, now, apiVars, remoteVars, coreVars, monitorVars, healthVars,
                   stalledVars, fileVars, strategyVars, txnVars, claimVars, failureVars>>

\* _complete_task_success: complete_task
AComplete ==
    /\ aproc.pc \in {"succeeded", "no_files"}
    /\ tasks' = CompleteTable(tasks, aproc.hash, "added")
    /\ aproc' = [aproc EXCEPT !.pc = "untag"]
    /\ UNCHANGED <<now, apiVars, remoteVars, coreVars, monitorVars, healthVars,
                   stalledVars, fileVars, strategyVars, txnVars, claimVars, failureVars>>

\* _complete_task_success: remove_tag(processing_tag)
AUntag(ok) ==
    /\ aproc.pc = "untag"
    /\ tags' = RemoveTagsFrom(tags, present, aproc.hash, ProcessingTag, ok)
    /\ aproc' = [aproc EXCEPT !.pc = "done", !.untagged = Seen(ok)]
    /\ UNCHANGED <<tasks, now, apiVars, present, done, coreVars, monitorVars, healthVars,
                   stalledVars, fileVars, strategyVars, txnVars, claimVars, failureVars>>

\* _recover_task_on_failure: add_tag(added_tag), remove_tag(processing_tag)
ARecover(ok1, ok2) ==
    /\ aproc.pc = "failed"
    /\ tags' = RemoveTagsFrom(AddTagsTo(tags, present, aproc.hash, AddedTag, ok1),
                              present, aproc.hash, ProcessingTag, ok2)
    /\ aproc' = [aproc EXCEPT !.pc = "recovered"]
    /\ UNCHANGED <<tasks, now, apiVars, present, done, coreVars, monitorVars, healthVars,
                   stalledVars, fileVars, strategyVars, txnVars, claimVars, failureVars>>

\* the user tags the torrent as added again: the task of before is over
ARetag(h) ==
    /\ aproc.pc = "done"
    /\ AddedTag \notin tags[h]
    /\ tags' = [tags EXCEPT ![h] = @ \cup {AddedTag}]
    /\ aproc' = NoAddedTask
    /\ UNCHANGED <<tasks, now, apiVars, present, done, coreVars, monitorVars, healthVars,
                   stalledVars, fileVars, strategyVars, txnVars, claimVars, failureVars>>

NextAdded ==
    \/ \E h \in Hashes, ok1, ok2 \in BOOLEAN : ADiscover(h, ok1, ok2)
    \/ \E h \in Hashes : AClaim(h)
    \/ \E files \in TorrentFiles, ok \in BOOLEAN : AProcess(files, ok)
    \/ AComplete
    \/ \E ok \in BOOLEAN : AUntag(ok)
    \/ \E ok1, ok2 \in BOOLEAN : ARecover(ok1, ok2)
    \/ \E h \in Hashes : ARetag(h)

SpecAdded == InitAdded /\ [][NextAdded]_vars

----------------------------------------------------------------------------
(* core/tasks.py: the tag calls of the scanner for a newly saved task       *)

\* the scanner's add_tag(processing_tag) or remove_tag(source tag) returns
ScannerTagCallReturns ==
    /\ spc.pc \in {"add_tag", "remove_tag"}
    /\ spc' # spc
    /\ sup' = "running"

\* C31: from the save of a new task to the end of the scanner's step for it,
\* after each of the scanner's tag calls the torrent of the new task, while
\* it exists and its task is in the store, carries a lifecycle tag.
C31_NewTaskKeepsLifecycleTag ==
    [][ScannerTagCallReturns =>
          LET h == Head(spc.todo)
          IN (present'[h] /\ TaskExists(tasks', h, spc.type)) =>
                 tags'[h] \cap LifecycleTags # {}]_vars

----------------------------------------------------------------------------
(* retry_engine/infinite_retry.py, retry_engine/strategies.py: one          *)
(* calculate_next_retry call followed from the reason and retry_count it    *)
(* is given to the delay it computes.                                       *)

\* the failure reasons given to the engine: the names of the strategies, a
\* name followed by a message, reasons that no name begins, the empty string
StrategyReasons ==
    {<<DefaultStrategies[i].name>> : i \in 1..Len(DefaultStrategies)}
    \cup {<<DefaultStrategies[i].name, ":msg">> : i \in 1..Len(DefaultStrategies)}
    \cup {<<"metadata_not_ready">>, ExceptionReason, <<"max_retries_reached:", "qbit_api_error">>,
          <<"unknown:", "network_error">>, <<>>}

\* random.uniform(-jitter_factor, jitter_factor): the lower end, 0, the upper end
Jitters == {-1, 0, 1}

StrategyInputs == [reason : StrategyReasons, retry_count : 0..MaxEngineRetryCount, j : Jitters]

InitStrategy ==
    /\ InitStore
    /\ InitNoApi
    /\ InitNoCore
    /\ InitNoRetry
    /\ InitNoBreaker
    /\ InitNoFailures
    /\ InitNoClaims
    /\ InitNoTxn
    /\ InitNoHealth
    /\ InitNoStalled
    /\ InitNoFiles
    /\ InitNoAdded
    /\ sq = [op |-> "idle"]

\* calculate_next_retry: strategy = self.strategy_manager.get_strategy(failure_reason)
QGetStrategy ==
    /\ sq.op = "called"
    /\ sq' = [op |-> "strategy", reason |-> sq.reason, retry_count |-> sq.retry_count,
              j |-> sq.j, strategy |-> GetStrategy(sq.reason)]
    /\ UNCHANGED <<tasks, now, apiVars, remoteVars, coreVars, monitorVars, healthVars,
                   stalledVars, fileVars, addedVars, txnVars, claimVars, failureVars>>

\* calculate_next_retry: should_retry, calculate_delay, the time returned
QCalculateDelay ==
    /\ sq.op = "strategy"
    /\ sq' = [op |-> "returned", reason |-> sq.reason, retry_count |-> sq.retry_count,
              j |-> sq.j, strategy |-> sq.strategy,
              final_delay |-> FinalDelay(sq.strategy, sq.retry_count),
              delay |-> CalculateDelay(sq.strategy, sq.retry_count, sq.j),
              next_retry |-> CalculateNextRetry(sq.retry_count, sq.reason, now, sq.j)]
    /\ UNCHANGED <<tasks, now, apiVars, remoteVars, coreVars, monitorVars, healthVars,
                   stalledVars, fileVars, addedVars, txnVars, claimVars, failureVars>>

\* calculate_next_retry(task, failure_reason) is called
QCall(in) ==
    /\ sq.op \in {"idle", "returned"}
    /\ sq' = [op |-> "called", reason |-> in.reason, retry_count |-> in.retry_count, j |-> in.j]
    /\ UNCHANGED <<tasks, now, apiVars, remoteVars, coreVars, monitorVars, healthVars,
                   stalledVars, fileVars, addedVars, txnVars, claimVars, failureVars>>

NextStrategy ==
    \/ QGetStrategy
    \/ QCalculateDelay
    \/ \E in \in StrategyInputs : QCall(in)

SpecStrategy == InitStrategy /\ [][NextStrategy]_vars

StrategyNames == {DefaultStrategies[i].name : i \in 1..Len(DefaultStrategies)}

\* C32: get_strategy returns a default strategy for every reason: the one
\* named as the reason, otherwise one whose name the reason begins with,
\* otherwise retry_later.
C32_StrategySelection ==
    sq.op \in {"strategy", "returned"} =>
        /\ \E i \in 1..Len(DefaultStrategies) : sq.strategy = DefaultStrategies[i]
        /\ IF Len(sq.reason) = 1 /\ sq.reason[1] \in StrategyNames
           THEN sq.strategy.name = sq.reason[1]
           ELSE IF Len(sq.reason) > 0 /\ sq.reason[1] \in StrategyNames
           THEN sq.strategy.name = sq.reason[1]
           ELSE sq.strategy.name = "retry_later"

\* C32, the case: a reason made of a strategy name and a message got that strategy
C32_Witness ==
    /\ sq.op = "returned"
    /\ sq.reason = <<"processing_exception", ":msg">>
    /\ sq.strategy.name = "processing_exception"
    /\ sq.strategy.base_delay = 30

\* C33: a task failing with metadata_not_ready is rescheduled by the
\* exponential strategy of base delay 60 s and maximum delay 600 s.
C33_MetadataNotReadyDelay ==
    (sq.op = "returned" /\ sq.reason = <<"metadata_not_ready">>) =>
        /\ sq.strategy.type = "exponential_backoff"
        /\ sq.strategy.base_delay = 60
        /\ sq.strategy.max_delay = 600
        /\ sq.final_delay = Min(60 * Pow(2, Min(sq.retry_count, 10)), 600)

ExponentialCall == sq.op = "returned" /\ sq.strategy.type = "exponential_backoff"

\* C34: for an exponential strategy the delay before jitter is
\* min(base * multiplier^min(retry_count, 10), max_delay); it is base at
\* retry_count 0, at most max_delay, and not less than the delay of the
\* retry_count before (multiplier >= 1); the delay after jitter is >= 1.
C34_ExponentialDelay ==
    ExponentialCall =>
        LET st == sq.strategy
            n == Min(sq.retry_count, 10)
            before == IF sq.retry_count = 0 THEN 0
                      ELSE LET k == Min(sq.retry_count - 1, 10)
                           IN Min((st.base_delay * Pow(st.mult_num, k)) \div Pow(st.mult_den, k),
                                  st.max_delay)
        IN /\ sq.final_delay =
                Min((st.base_delay * Pow(st.mult_num, n)) \div Pow(st.mult_den, n), st.max_delay)
           /\ sq.retry_count = 0 => sq.final_delay = st.base_delay
           /\ sq.final_delay <= st.max_delay
           /\ st.mult_num >= st.mult_den => sq.final_delay >= before
           /\ sq.delay >= 1

\* C34, the case: retry_count beyond 10 and the limit reached, with jitter
C34_Witness ==
    /\ ExponentialCall
    /\ sq.retry_count = 11
    /\ sq.strategy.name = "processing_exception"
    /\ sq.final_delay = 300
    /\ sq.delay = 270

----------------------------------------------------------------------------
(* utils/database.py: DatabaseManager.transaction around one operation of   *)
(* core/storage.py.  sqlite3 raises OperationalError('database is locked') *)
(* from a statement of the operation or from conn.commit().                 *)

\* the store operations followed: save_task, get_pending_tasks, complete_task
StoreOps ==
    [name : {"save_task", "complete_task"}, torrent_hash : Hashes, task_type : TaskTypes,
     limit : {0}]
    \cup [name : {"get_pending_tasks"}, torrent_hash : {"none"}, task_type : {"none"},
          limit : 1..MaxLimit]

\* the statements of the operation: the tables they can leave
OpTables(op, tbl, time) ==
    IF op.name = "save_task"
    THEN {IF HashProcessing(tbl, op.torrent_hash) THEN tbl
          ELSE SaveWriteTable(tbl, op.torrent_hash, op.task_type, time)}
    ELSE IF op.name = "complete_task"
    THEN {CompleteTable(tbl, op.torrent_hash, op.task_type)}
    ELSE {ClaimTable(tbl, RowKeys(q), time) : q \in SelectPending(tbl, op.limit)}

\* the value the operation returns when its transaction ends normally
OpResults(op, tbl) ==
    IF op.name = "save_task"
    THEN {IF HashProcessing(tbl, op.torrent_hash) THEN <<FALSE>>
          ELSE <<SaveWriteResult(tbl, op.torrent_hash, op.task_type)>>}
    ELSE IF op.name = "complete_task"
    THEN {<<CompleteResult(tbl, op.torrent_hash, op.task_type)>>}
    ELSE {ClaimResult(tbl, RowKeys(q)) : q \in SelectPending(tbl, op.limit)}

\* except Exception of the operation: return False / return []
OpFailure(op) == IF op.name = "get_pending_tasks" THEN <<>> ELSE <<FALSE>>

InitTxn ==
    /\ InitStore
    /\ InitNoApi
    /\ InitNoCore
    /\ InitNoRetry
    /\ InitNoBreaker
    /\ InitNoFailures
    /\ InitNoClaims
    /\ InitNoHealth
    /\ InitNoStalled
    /\ InitNoFiles
    /\ InitNoAdded
    /\ InitNoStrategy
    /\ tx = [pc |-> "idle"]

\* the operation enters `with self.db_manager.transaction(self.db_path) as conn`
TEnter(op) ==
    /\ tx.pc \in {"idle", "returned"}
    /\ tx' = [pc |-> "body", op |-> op, before |-> tasks, work |-> tasks,
              result |-> <<>>, runs |-> 0, locked |-> FALSE]
    /\ UNCHANGED <<tasks, now, apiVars, remoteVars, coreVars, monitorVars, healthVars,
                   stalledVars, fileVars, addedVars, strategyVars, claimVars, failureVars>>

\* the body of the with statement: the statements run on the connection; a
\* statement that raises OperationalError is thrown into the generator
TBody(locked) ==
    /\ tx.pc = "body"
    /\ IF locked
       THEN tx' = [tx EXCEPT !.pc = "except", !.runs = @ + 1, !.locked = TRUE]
       ELSE \E q \in SelectPending(tx.work, IF tx.op.name = "get_pending_tasks"
                                            THEN tx.op.limit ELSE 0) :
               tx' = [tx EXCEPT !.pc = "commit", !.runs = @ + 1,
                         !.work = IF tx.op.name = "get_pending_tasks"
                                  THEN ClaimTable(tx.work, RowKeys(q), now)
                                  ELSE CHOOSE w \in OpTables(tx.op, tx.work, now) : TRUE,
                         !.result = IF tx.op.name = "get_pending_tasks"
                                    THEN ClaimResult(tx.work, RowKeys(q))
                                    ELSE CHOOSE r \in OpResults(tx.op, tx.work) : TRUE]
    /\ UNCHANGED <<tasks, now, apiVars, remoteVars, coreVars, monitorVars, healthVars,
                   stalledVars, fileVars, addedVars, strategyVars, claimVars, failureVars>>

\* transaction: conn.commit() after the first yield
TCommit(locked) ==
    /\ tx.pc = "commit"
    /\ IF locked
       THEN /\ tx' = [tx EXCEPT !.pc = "except", !.locked = TRUE]
            /\ UNCHANGED tasks
       ELSE /\ tasks' = tx.work
            /\ tx' = [tx EXCEPT !.pc = "returned"]
    /\ UNCHANGED <<now, apiVars, remoteVars, coreVars, monitorVars, healthVars,
                   stalledVars, fileVars, addedVars, strategyVars, claimVars, failureVars>>

\* transaction: except sqlite3.OperationalError with "database is locked":
\* sleep, conn.rollback(), and a second `yield conn`; the generator-based
\* context manager of contextlib raises RuntimeError (the generator did not
\* stop) instead of running the body again, and the operation's
\* `except Exception` returns its failure value
TExcept ==
    /\ tx.pc = "except"
    /\ tx' = [tx EXCEPT !.pc = "returned", !.work = tasks, !.result = OpFailure(tx.op)]
    /\ UNCHANGED <<tasks, now, apiVars, remoteVars, coreVars, monitorVars, healthVars,
                   stalledVars, fileVars, addedVars, strategyVars, claimVars, failureVars>>

NextTxn ==
    \/ \E op \in StoreOps : TEnter(op)
    \/ \E locked \in BOOLEAN : TBody(locked)
    \/ \E locked \in BOOLEAN : TCommit(locked)
    \/ TExcept

SpecTxn == InitTxn /\ [][NextTxn]_vars

\* C35: an operation whose transaction met 'database is locked' has run its
\* statements again, has committed them, and has returned what it returns
\* without the error.
C35_LockedRetriedOnce ==
    (tx.pc = "returned" /\ tx.locked) =>
        /\ tx.runs = 2
        /\ tasks \in OpTables(tx.op, tx.before, now)
        /\ tx.result \in OpResults(tx.op, tx.before)

----------------------------------------------------------------------------
(* monitor/task_manager.py: the batch of the worker *)

\* C36: when the worker has gone through its batch (and goes on to its next
\* claim), none of the tasks it claimed is left in status processing.
C36_BatchResolvedBeforeNextClaim ==
    rwork = <<>> => \A r \in rtasks : r.status # "processing"

----------------------------------------------------------------------------
(* persistence/task_store.py: get_eligible_tasks called by two worker       *)
(* threads, each on the connection of its thread.  The SELECT reads the     *)
(* committed table; the UPDATEs and the commit of TaskStore.transaction are *)
(* one write transaction (sqlite3 opens it before the first UPDATE).        *)

NoClaimCall == [pc |-> "idle", sel |-> <<>>, got |-> {}, concurrent |-> FALSE]

\* the other worker thread
Peer(w) == CHOOSE v \in Workers : v # w

InitClaims ==
    /\ InitStore
    /\ InitNoApi
    /\ InitNoCore
    /\ InitNoRetry
    /\ InitNoBreaker
    /\ InitNoFailures
    /\ InitNoHealth
    /\ InitNoStalled
    /\ InitNoFiles
    /\ InitNoAdded
    /\ InitNoStrategy
    /\ InitNoTxn
    /\ pcl = [w \in Workers |-> NoClaimCall]

\* get_eligible_tasks: the SELECT and fetchall(); the call is concurrent with
\* a call of the other thread that has selected and not yet written
GSelect(w, limit) ==
    /\ pcl[w].pc = "idle"
    /\ \E q \in PClaimSeqs(rtasks, now, limit) :
          pcl' = [v \in Workers |->
                     IF v = w
                     THEN [pc |-> "selected", sel |-> q, got |-> {},
                           concurrent |-> pcl[Peer(w)].pc = "selected"]
                     ELSE [pcl[v] EXCEPT !.concurrent = @ \/ pcl[v].pc = "selected"]]
    /\ UNCHANGED <<tasks, now, apiVars, remoteVars, coreVars, monitorVars, healthVars,
                   stalledVars, fileVars, addedVars, strategyVars, txnVars, failureVars>>

\* get_eligible_tasks: UPDATE ... WHERE task_uuid = ? for each selected task,
\* the commit, return tasks
GWrite(w) ==
    /\ pcl[w].pc = "selected"
    /\ rtasks' = PClaimTable(rtasks, pcl[w].sel, now)
    /\ pcl' = [pcl EXCEPT ![w].pc = "returned",
                          ![w].got = {pcl[w].sel[i].task_uuid : i \in 1..Len(pcl[w].sel)}]
    /\ UNCHANGED <<tasks, now, apiVars, remoteVars, coreVars, rwork, rlast, rgate, renv,
                   breakerVars, healthVars, stalledVars, fileVars, addedVars, strategyVars,
                   txnVars, failureVars>>

\* the thread has processed the tasks it was given:
\* update_task_after_processing(uuid, True) for each
GFinish(w) ==
    /\ pcl[w].pc = "returned"
    /\ rtasks' = {IF r.task_uuid \in pcl[w].got THEN [r EXCEPT !.status = "completed"] ELSE r :
                    r \in rtasks}
    /\ pcl' = [pcl EXCEPT ![w] = NoClaimCall]
    /\ UNCHANGED <<tasks, now, apiVars, remoteVars, coreVars, rwork, rlast, rgate, renv,
                   breakerVars, healthVars, stalledVars, fileVars, addedVars, strategyVars,
                   txnVars, failureVars>>

NextClaims ==
    \/ \E h \in Hashes, t \in TaskTypes : PSave(h, t)
    \/ \E h \in Hashes, t \in TaskTypes : PDelete(h, t)
    \/ \E w \in Workers, limit \in 1..MaxLimit : GSelect(w, limit)
    \/ \E w \in Workers : GWrite(w)
    \/ \E w \in Workers : GFinish(w)

SpecClaims == InitClaims /\ [][NextClaims]_vars

\* C37: when two threads have called get_eligible_tasks at the same time, no
\* task_uuid is in both of the lists returned.
C37_EligibleClaimsDisjoint ==
    \A w \in Workers :
        (/\ pcl[w].pc = "returned" /\ pcl[Peer(w)].pc = "returned"
         /\ pcl[w].concurrent /\ pcl[Peer(w)].concurrent) =>
            pcl[w].got \cap pcl[Peer(w)].got = {}

----------------------------------------------------------------------------
(* core/tasks.py, main.py: the source tag when a task completes *)

\* _complete_task_success of worker w calls complete_task, the scanner not
\* being between save_task and its tag calls for the torrent
CompletesSuccessfully(w) ==
    /\ wpc[w] \in {"succeeded", "no_files"}
    /\ wpc'[w] = "untag"
    /\ ~(spc.pc \in {"add_tag", "remove_tag"} /\ Head(spc.todo) = Head(wbatch[w])[1])

\* C38: when a task (h, t) completes successfully the torrent does not carry
\* the source tag of t (nobody applies a tag again in this model, so with the
\* tag on the torrent the scanner creates the task (h, t) a second time).
C38_ProcessedOncePerTag ==
    [][\A w \in Workers :
          CompletesSuccessfully(w) =>
              LET h == Head(wbatch[w])[1]
                  t == Head(wbatch[w])[2]
              IN present'[h] => SourceTag(t) \notin tags'[h]]_vars

----------------------------------------------------------------------------
(* circuit_breaker/breaker.py: record_failure called by the worker threads, *)
(* starting from the closed breaker, with no other call on the breaker.     *)

InitFailures ==
    /\ InitStore
    /\ InitNoApi
    /\ InitNoCore
    /\ InitNoRetry
    /\ InitNoHealth
    /\ InitNoStalled
    /\ InitNoFiles
    /\ InitNoAdded
    /\ InitNoStrategy
    /\ InitNoTxn
    /\ InitNoClaims
    /\ bdb = InitialBreaker(0)
    /\ bpc = [c \in Threads |-> "idle"]
    /\ bloc = [c \in Threads |-> Idle]
    /\ bret = [c \in Threads |-> "none"]
    /\ fcount = 0

\* record_failure: _load_breaker_state and the decision
FRecordFailure(c) ==
    /\ bpc[c] = "idle"
    /\ fcount < MaxFailureCalls
    /\ fcount' = fcount + 1
    /\ bpc' = [bpc EXCEPT ![c] = "decided"]
    /\ bloc' = [bloc EXCEPT ![c] = [op |-> "record_failure", plan |-> RecordFailurePlan(bdb)]]
    /\ UNCHANGED <<tasks, now, apiVars, remoteVars, coreVars, retryVars, bdb, bret, healthVars,
                   stalledVars, fileVars, addedVars, strategyVars, txnVars, claimVars>>

NextFailures ==
    \/ \E c \in Threads : FRecordFailure(c)
    \/ \E c \in Threads : BreakerLoad(c)
    \/ \E c \in Threads : BreakerSave(c)

SpecFailures == InitFailures /\ [][NextFailures]_vars

\* C39: when failure_threshold record_failure calls have been made and have
\* returned, the breaker is open.
C39_NoFailureLost ==
    (fcount >= BreakerConfig.failure_threshold /\ \A c \in Threads : bpc[c] = "idle") =>
        bdb.state = "open"

----------------------------------------------------------------------------
(* core/storage.py: save_task against a task of the torrent in processing *)

\* C40: a save_task(h, t) call that returns while some task of torrent h is
\* in status processing has inserted nothing, has changed no row and returns
\* false.
C40_NoSaveWhileProcessing ==
    [][\A c \in Threads :
          ((SaveWrites(c) \/ SaveReturnsEarly(c)) /\ HashProcessing(tasks, ares'.key[1])) =>
              /\ ~ares'.val
              /\ tasks' = tasks]_vars

====
